---------------------------- MODULE Spec2Model ----------------------------
(***************************************************************************)
(* A model of the toy compiler in src/src/compiler: the syntax tree as the *)
(* parser builds it (astree.py, parser.py), the type checker               *)
(* (type_checker.py), the IR generator (ir_generator.py) and the machine    *)
(* behaviour of the instruction list as generate_assembly lowers it         *)
(* (assembly_generator.py).                                                 *)
(*                                                                         *)
(* Python values are encoded as records that carry a tag, so that values   *)
(* of different classes can be told apart the way isinstance and match do. *)
(***************************************************************************)
EXTENDS Integers, Sequences, FiniteSets, TLC

VARIABLES
    phase,      \* where the run is: "tc_ready", "tc_done", "gen_ready",
                \* "gen_raised", "asm_ready", "asm_raised", "asm_done",
                \* "running", "trapped", "halted"
    node,       \* the syntax tree handed to typecheck (PyNone in a compile run)
    sym_tab,    \* the TypeSymTab chain handed to typecheck
    tc,         \* what typecheck did: returned type or raised error
    prog,       \* the Program handed to generate_ir (PyNone in a typecheck run)
    gen,        \* what generate_ir did: its instruction list or its exception
    ip,         \* the machine: index of the next instruction of gen.ins
    mem,        \* the machine: the stack slot of every IR variable written so far
    hits,       \* history: how often each instruction has executed
    seen,       \* history: the condition value each CondJump last tested
    out,        \* history: the values passed to print_int/print_bool so far
    asm,        \* what generate_assembly did: its lines or its KeyError
    root,       \* the bindings of the module's GLOBAL_SYMTAB object
    earlier     \* history: what the earlier calls of generate_ir did

vars == <<phase, node, sym_tab, tc, prog, gen, ip, mem, hits, seen, out, asm, root,
          earlier>>

---------------------------------------------------------------------------
(* Python's None, and int/bool values (bool is a subclass of int).         *)

PyNone == [tag |-> "None"]
PyInt(n) == [tag |-> "int", n |-> n]
PyBool(b) == [tag |-> "bool", n |-> IF b THEN 1 ELSE 0]
PyStr(s) == [tag |-> "str", s |-> s]
PyList(xs) == [tag |-> "list", items |-> xs]

(* tokenizer.Location *)
Location(line, column) == [tag |-> "Location", line |-> line, column |-> column]

(* datatypes.py: the singletons Int, Bool, Unit, the function types, and   *)
(* the class object UnitType that astree.Expression uses as the default of *)
(* its type field (it is the class, not an instance).                      *)
IntTy == [tag |-> "Int"]
BoolTy == [tag |-> "Bool"]
UnitTy == [tag |-> "Unit"]
FunType(param_types, return_type) ==
    [tag |-> "FunType", param_types |-> param_types, return_type |-> return_type]
UnitTypeClass == [tag |-> "class UnitType"]

IsIntType(t) == t.tag = "Int"
IsBoolType(t) == t.tag = "Bool"
IsType(t) == t.tag \in {"Int", "Bool", "Unit", "FunType"}

---------------------------------------------------------------------------
(* astree.py: the node classes.  Every node has location and type; type is *)
(* keyword-only and defaults to the class UnitType.                        *)

Literal(location, value, type) ==
    [tag |-> "Literal", location |-> location, type |-> type, value |-> value]
Identifier(location, name) ==
    [tag |-> "Identifier", location |-> location, type |-> UnitTypeClass, name |-> name]
BinaryOp(location, left, op, right, type) ==
    [tag |-> "BinaryOp", location |-> location, type |-> type,
     left |-> left, op |-> op, right |-> right]
IfExpr(location, condition, then_expr, else_expr, type) ==
    [tag |-> "IfExpr", location |-> location, type |-> type,
     condition |-> condition, then_expr |-> then_expr, else_expr |-> else_expr]
Call(location, function, arguments) ==
    [tag |-> "Call", location |-> location, type |-> UnitTypeClass,
     function |-> function, arguments |-> arguments]
UnaryOp(location, op, expr, type) ==
    [tag |-> "UnaryOp", location |-> location, type |-> type, op |-> op, expr |-> expr]
Block(location, statements, result_expr) ==
    [tag |-> "Block", location |-> location, type |-> UnitTypeClass,
     statements |-> statements, result_expr |-> result_expr]
VarDecl(location, name, initializer, type) ==
    [tag |-> "VarDecl", location |-> location, type |-> type,
     name |-> name, initializer |-> initializer, datatype |-> PyNone]
Program(location, statements, result) ==
    [tag |-> "Program", location |-> location, type |-> UnitTypeClass,
     statements |-> statements, result |-> result]
While(location, condition, statements) ==
    [tag |-> "While", location |-> location, type |-> UnitTypeClass,
     condition |-> condition, statements |-> statements]

NodeTags == {"Literal", "Identifier", "BinaryOp", "IfExpr", "Call", "UnaryOp",
             "Block", "VarDecl", "Program", "While"}

(* The positional sub-patterns of a class pattern bind the fields named by *)
(* the class's __match_args__: for a dataclass, its positional __init__    *)
(* parameters in order.  location comes first in every node class (it is   *)
(* inherited from Expression) and the keyword-only type is left out.       *)
MatchArgs(n) ==
    CASE n.tag = "Literal"    -> <<n.location, n.value>>
      [] n.tag = "Identifier" -> <<n.location, PyStr(n.name)>>
      [] n.tag = "BinaryOp"   -> <<n.location, n.left, PyStr(n.op), n.right>>
      [] n.tag = "IfExpr"     -> <<n.location, n.condition, n.then_expr, n.else_expr>>
      [] n.tag = "Call"       -> <<n.location, PyStr(n.function), PyList(n.arguments)>>
      [] n.tag = "UnaryOp"    -> <<n.location, PyStr(n.op), n.expr>>
      [] n.tag = "Block"      -> <<n.location, PyList(n.statements), n.result_expr>>
      [] n.tag = "VarDecl"    -> <<n.location, PyStr(n.name), n.initializer, n.datatype>>
      [] n.tag = "Program"    -> <<n.location, PyList(n.statements), n.result>>
      [] n.tag = "While"      -> <<n.location, n.condition, PyList(n.statements)>>

---------------------------------------------------------------------------
(* parser.py: the trees the parser builds.  Each operator is the return    *)
(* statement of the parser function of the same name, for tokens on which  *)
(* that function does not raise.                                           *)

parse_int_literal(location, value) ==
    Literal(location, value, IF value.tag = "bool" THEN BoolTy ELSE IntTy)

parse_identifier(location, name) == Identifier(location, name)

(* parse_expression: the type the parser gives a BinaryOp depends on op.   *)
parse_expression(location, left, op, right) ==
    BinaryOp(location, left, op, right,
             CASE op = "=" -> UnitTypeClass
               [] op \in {"or", "and", "==", "!=", "<", "<=", ">", ">="} -> BoolTy
               [] op \in {"+", "-", "*", "/", "%"} -> IntTy)

(* parse_if_expression raises unless the condition's parser type is Bool   *)
(* and, with an else, both branches carry equal parser types.              *)
IfParses(condition, then_expr, else_expr) ==
    /\ IsBoolType(condition.type)
    /\ else_expr # PyNone => then_expr.type = else_expr.type

parse_if_expression(location, condition, then_expr, else_expr) ==
    IF else_expr # PyNone
    THEN IfExpr(location, condition, then_expr, else_expr, then_expr.type)
    ELSE IfExpr(location, condition, then_expr, else_expr, UnitTypeClass)

parse_unary_op(location, op, expr) ==
    UnaryOp(location, op, expr, IF op = "-" THEN IntTy ELSE BoolTy)

parse_function_call(location, name, arguments) == Call(location, name, arguments)

parse_var_decl(location, name, initializer) ==
    VarDecl(location, name, initializer, initializer.type)

parse_while(location, condition, statements) == While(location, condition, statements)

RECURSIVE final_statement(_, _)
final_statement(stmt, final_flag) ==
    LET loc == stmt.location
        wrap(f) == IF final_flag THEN Call(loc, f, <<stmt>>) ELSE stmt
    IN CASE stmt.tag = "Literal" ->
              IF IsIntType(stmt.type) THEN wrap("print_int")
              ELSE IF IsBoolType(stmt.type) THEN wrap("print_bool")
              ELSE PyNone
         [] stmt.tag = "Identifier" -> wrap("print_var")
         [] stmt.tag = "BinaryOp" ->
              IF IsIntType(stmt.type) THEN wrap("print_int")
              ELSE IF IsBoolType(stmt.type) THEN wrap("print_bool")
              ELSE IF final_flag THEN final_statement(stmt.right, TRUE)
              ELSE stmt.right
         [] stmt.tag = "IfExpr" ->
              IF stmt.else_expr = PyNone THEN PyNone
              ELSE IF IsIntType(stmt.type) THEN wrap("print_int")
              ELSE IF IsBoolType(stmt.type) THEN wrap("print_bool")
              ELSE PyNone
         [] stmt.tag = "Call" ->
              IF stmt.function = "read_int" THEN wrap("print_int") ELSE PyNone
         [] stmt.tag = "UnaryOp" ->
              IF IsIntType(stmt.type) THEN wrap("print_int") ELSE wrap("print_bool")
         [] stmt.tag = "Block" ->
              IF stmt.result_expr # PyNone
              THEN final_statement(stmt.result_expr, final_flag)
              ELSE PyNone
         [] stmt.tag = "VarDecl" -> PyNone
         [] stmt.tag = "While" -> PyNone

(* parse_block: final_semi_colon says whether the token before } is ;      *)
parse_block(location, statements, final_semi_colon) ==
    Block(location, statements,
          IF ~final_semi_colon /\ Len(statements) > 0
          THEN final_statement(statements[Len(statements)], FALSE)
          ELSE PyNone)

(* parse_program: final_semi_colon says whether the last token is ;        *)
parse_program(expressions, final_semi_colon) ==
    IF ~final_semi_colon
    THEN Program(Location(0, 0), expressions,
                 final_statement(expressions[Len(expressions)], TRUE))
    ELSE Program(Location(0, 0), expressions, PyNone)

---------------------------------------------------------------------------
(* The ir module: IR variables, labels and the seven instructions, with    *)
(* the field names that assembly_generator.py matches on.                  *)

IRVar(name) == [tag |-> "IRVar", name |-> name]
str(var) == var.name

Label(location, name) == [tag |-> "Label", location |-> location, name |-> name]
LoadIntConst(location, value, dest) ==
    [tag |-> "LoadIntConst", location |-> location, value |-> value, dest |-> dest]
LoadBoolConst(location, value, dest) ==
    [tag |-> "LoadBoolConst", location |-> location, value |-> value, dest |-> dest]
Copy(location, source, dest) ==
    [tag |-> "Copy", location |-> location, source |-> source, dest |-> dest]
IRCall(location, fun, args, dest) ==
    [tag |-> "Call", location |-> location, fun |-> fun, args |-> args, dest |-> dest]
Jump(location, label) == [tag |-> "Jump", location |-> location, label |-> label]
CondJump(location, cond, then_label, else_label) ==
    [tag |-> "CondJump", location |-> location, cond |-> cond,
     then_label |-> then_label, else_label |-> else_label]

---------------------------------------------------------------------------
(* ir_generator.SymTab: a chain of frames, written here as a sequence with *)
(* the outermost frame first and the frame the code calls st last.  A      *)
(* frame's locals is a dict from (name, type) to an IRVar.                 *)

EmptyDict == [k \in {} |-> PyNone]
DictSet(d, key, value) ==
    [k \in DOMAIN d \cup {key} |-> IF k = key THEN value ELSE d[k]]

local_lookup(st, name, t) ==
    LET locals == st[Len(st)]
    IN IF <<name, t>> \in DOMAIN locals THEN locals[<<name, t>>] ELSE PyNone

RECURSIVE lookup(_, _, _)
lookup(st, name, t) ==
    LET locals == st[Len(st)]
    IN IF <<name, t>> \in DOMAIN locals THEN locals[<<name, t>>]
       ELSE IF Len(st) > 1 THEN lookup(SubSeq(st, 1, Len(st) - 1), name, t)
       ELSE PyNone

GLOBAL_SYMTAB ==
    [k \in {<<"+", IntTy>>, <<"-", IntTy>>, <<"*", IntTy>>, <<"/", IntTy>>,
            <<"%", IntTy>>, <<"<", BoolTy>>, <<"<=", BoolTy>>, <<"==", BoolTy>>,
            <<">=", BoolTy>>, <<">", BoolTy>>, <<"!=", BoolTy>>,
            <<"unary_-", IntTy>>, <<"unary_not", BoolTy>>,
            <<"print_int", UnitTy>>, <<"print_bool", UnitTy>>,
            <<"read_int", UnitTy>>} |-> IRVar(k[1])]

---------------------------------------------------------------------------
(* generate_ir: the generation state s holds what the closures share       *)
(* (counter, label_counter, ins) and the chain st they are working in.     *)
(* s.marks is history: one record per and/or lowered, naming the places of *)
(* its instructions in ins.                                                *)

var_unit == IRVar("unit")

NoErr == [kind |-> "", location |-> Location(0, 0)]
Ok(s, val) == [ok |-> TRUE, s |-> s, val |-> val, err |-> NoErr]
Raise(s, kind, location) ==
    [ok |-> FALSE, s |-> s, val |-> PyNone, err |-> [kind |-> kind, location |-> location]]

Emit(s, insn) == [s EXCEPT !.ins = Append(@, insn)]

(* new_var with name None: the temporary is bound under its own name.      *)
new_var(t, s) ==
    LET var == IRVar("x" \o ToString(s.counter))
        n == Len(s.st)
    IN [var |-> var,
        s |-> [s EXCEPT !.st[n] = DictSet(@, <<str(var), t>>, var),
                        !.counter = @ + 1]]

(* new_var with a name: the fresh variable is bound under (name, t).       *)
new_var_named(t, s, name) ==
    LET var == IRVar("x" \o ToString(s.counter))
        n == Len(s.st)
    IN [var |-> var,
        s |-> [s EXCEPT !.st[n] = DictSet(@, <<name, t>>, var),
                        !.counter = @ + 1]]

(* A label made without advancing label_counter: the next one would get   *)
(* the same name.                                                          *)
label_without_increment(location, s) ==
    [label |-> Label(location, "L" \o ToString(s.label_counter)), s |-> s]

new_label(location, s) ==
    [label |-> Label(location, "L" \o ToString(s.label_counter)),
     s |-> [s EXCEPT !.label_counter = @ + 1]]

RECURSIVE visit(_, _, _)
RECURSIVE visit_all(_, _, _, _)

(* `for stmt in statements: visit(st, stmt)` and the list comprehension    *)
(* over a call's arguments: the nodes stmts[i..n] in order, stopping at    *)
(* the first exception; vals are the values returned.                      *)
visit_all(s, stmts, i, n) ==
    IF i > n THEN [ok |-> TRUE, s |-> s, vals |-> <<>>, err |-> NoErr]
    ELSE LET r == visit(s, stmts[i], FALSE)
         IN IF ~r.ok THEN [ok |-> FALSE, s |-> r.s, vals |-> <<>>, err |-> r.err]
            ELSE LET rest == visit_all(r.s, stmts, i + 1, n)
                 IN [rest EXCEPT !.vals = <<r.val>> \o @]

(* isinstance(type, IntType) / isinstance(type, BoolType), else Unit.      *)
type_of(type) ==
    IF IsIntType(type) THEN IntTy ELSE IF IsBoolType(type) THEN BoolTy ELSE UnitTy

(* The attribute `name` exists on Identifier and VarDecl nodes only.       *)
HasName(n) == n.tag \in {"Identifier", "VarDecl"}

visit_Literal(s, expr) ==
    LET loc == expr.location
        value == expr.value
    IN CASE value.tag = "bool" ->
              LET nv == new_var(BoolTy, s)
              IN Ok(Emit(nv.s, LoadBoolConst(loc, value.n = 1, nv.var)), nv.var)
         [] value.tag = "int" ->
              LET nv == new_var(IntTy, s)
              IN Ok(Emit(nv.s, LoadIntConst(loc, value.n, nv.var)), nv.var)
         [] value.tag = "None" -> Ok(s, var_unit)
         [] OTHER -> Raise(s, "unsupported literal", loc)

(* A name resolves to its Int binding if the chain has one, else to its    *)
(* Bool binding.                                                           *)
(* A lookup that tries Bool before Int.                                    *)
resolve_bool_first(st, name) ==
    IF lookup(st, name, BoolTy) # PyNone THEN lookup(st, name, BoolTy)
    ELSE lookup(st, name, IntTy)

resolve(st, name) ==
    IF lookup(st, name, IntTy) # PyNone THEN lookup(st, name, IntTy)
    ELSE lookup(st, name, BoolTy)

local_resolve(st, name) ==
    IF local_lookup(st, name, IntTy) # PyNone THEN local_lookup(st, name, IntTy)
    ELSE local_lookup(st, name, BoolTy)

visit_Identifier(s, expr) ==
    IF resolve(s.st, expr.name) # PyNone
    THEN Ok(s, resolve(s.st, expr.name))
    ELSE Raise(s, "Unknown identifier", expr.location)

visit_Assign(s, expr) ==
    LET loc == expr.location
        left == expr.left
        right == expr.right
    IN IF ~(left.tag = "BinaryOp" /\ left.op = "=")
       THEN IF left.tag # "Identifier"
            THEN Raise(s, "Left side of assignment must be a variable", loc)
            ELSE LET var_left == resolve(s.st, left.name)
                 IN IF var_left = PyNone
                    THEN Raise(s, "Unknown identifier", loc)
                    ELSE LET r == visit(s, right, FALSE)
                         IN IF ~r.ok THEN r
                            ELSE Ok(Emit(r.s, Copy(loc, r.val, var_left)), var_left)
       ELSE LET r == visit(s, right, FALSE)
            IN IF ~r.ok THEN r
               ELSE IF ~HasName(left.right)
               THEN Raise(r.s, "AttributeError", PyNone)
               ELSE LET target == local_resolve(r.s.st, left.right.name)
                    IN IF target = PyNone
                       THEN Raise(r.s, "Undefined variable", loc)
                       ELSE visit(Emit(r.s, Copy(loc, r.val, target)), left, FALSE)

(* and: CondJump(var_left, l_skip, l_right); or: the two labels swapped.   *)
and_or_cond_jump(loc, op, var_left, l_skip, l_right) ==
    IF op = "and"
    THEN CondJump(loc, var_left, l_skip, l_right)
    ELSE CondJump(loc, var_left, l_right, l_skip)

(* The constant of the other operator on the skip path: and would yield    *)
(* True and or would yield False whenever the right operand is skipped.    *)
skip_const_of_other_op(loc, op, extra_var) ==
    IF op = "and"
    THEN LoadBoolConst(loc, TRUE, extra_var)
    ELSE LoadBoolConst(loc, FALSE, extra_var)

(* The constant loaded on the path that skips the right operand.           *)
and_or_skip_const(loc, op, extra_var) ==
    IF op = "and"
    THEN LoadBoolConst(loc, FALSE, extra_var)
    ELSE LoadBoolConst(loc, TRUE, extra_var)

(* The type and/or finds for an operand: Bool if it is an Identifier bound *)
(* as Bool in the current frame, or its value is a Bool temporary of the   *)
(* current frame, or it is a Bool literal; else Unit.                      *)
and_or_operand_type(st, operand, var) ==
    LET e == IF operand.tag = "Block" THEN operand.result_expr ELSE operand
    IN IF e.tag = "Identifier" /\ local_lookup(st, e.name, BoolTy) # PyNone THEN BoolTy
       ELSE IF local_lookup(st, str(var), BoolTy) # PyNone THEN BoolTy
       ELSE IF e.tag = "Literal" /\ IsBoolType(e.type) THEN BoolTy
       ELSE UnitTy

visit_AndOr(s, expr) ==
    LET loc == expr.location
        op == expr.op
        n1 == new_label(loc, s)
        n2 == new_label(loc, n1.s)
        n3 == new_label(loc, n2.s)
        l_skip == n1.label
        l_right == n2.label
        l_end == n3.label
        rl == visit(n3.s, expr.left, FALSE)
    IN IF ~rl.ok THEN rl
       ELSE
       LET var_left == rl.val
           s1 == Emit(Emit(rl.s, and_or_cond_jump(loc, op, var_left, l_skip, l_right)),
                      l_skip)
           rr == visit(s1, expr.right, FALSE)
       IN IF ~rr.ok THEN rr
          ELSE
          LET var_right == rr.val
              left_type == and_or_operand_type(rr.s.st, expr.left, var_left)
              right_type == and_or_operand_type(rr.s.st, expr.right, var_right)
          IN IF ~IsBoolType(left_type) \/ ~IsBoolType(right_type)
             THEN Raise(rr.s, "requires two Bools", loc)
             ELSE
             LET nv == new_var(BoolTy, rr.s)
                 extra_var == nv.var
                 base == Len(rr.s.ins)
                 s2 == [nv.s EXCEPT
                          !.ins = @ \o <<Copy(loc, var_right, extra_var),
                                         Jump(loc, l_end),
                                         l_right,
                                         and_or_skip_const(loc, op, extra_var),
                                         Jump(loc, l_end),
                                         l_end>>,
                          !.marks = Append(@,
                              [op |-> op,
                               cj |-> Len(rl.s.ins) + 1,
                               rfrom |-> Len(rl.s.ins) + 3,
                               rto |-> base,
                               copy |-> base + 1,
                               const |-> base + 4,
                               join |-> base + 6,
                               result |-> extra_var,
                               left_var |-> var_left,
                               right_var |-> var_right])]
             IN Ok(s2, extra_var)

(* The type a binary operator finds for an operand.                        *)
operand_type(st, operand, var) ==
    LET e == IF operand.tag = "Block" THEN operand.result_expr ELSE operand
    IN IF e.tag = "BinaryOp" THEN type_of(e.type)
       ELSE IF e.tag = "Identifier"
       THEN IF lookup(st, e.name, IntTy) # PyNone THEN IntTy
            ELSE IF lookup(st, e.name, BoolTy) # PyNone THEN BoolTy
            ELSE UnitTy
       ELSE IF lookup(st, str(var), IntTy) # PyNone THEN IntTy
            ELSE IF lookup(st, str(var), BoolTy) # PyNone THEN BoolTy
            ELSE UnitTy

visit_BinaryOp(s, expr) ==
    LET loc == expr.location
        op == expr.op
        t == type_of(expr.type)
        var_op == lookup(s.st, op, t)
    IN IF var_op = PyNone THEN Raise(s, "Unknown operator", loc)
       ELSE
       LET rl == visit(s, expr.left, FALSE)
       IN IF ~rl.ok THEN rl
          ELSE
          LET rr == visit(rl.s, expr.right, FALSE)
          IN IF ~rr.ok THEN rr
             ELSE
             LET left_type == operand_type(rr.s.st, expr.left, rl.val)
                 right_type == operand_type(rr.s.st, expr.right, rr.val)
             IN IF op \in {"==", "!="} /\ left_type # right_type
                THEN Raise(rr.s, "requires two of the same type", loc)
                ELSE IF /\ op \in {"+", "-", "*", "/", "%", "<", "<=", ">", ">="}
                        /\ (~IsIntType(left_type) \/ ~IsIntType(right_type))
                THEN Raise(rr.s, "requires two integers", loc)
                ELSE LET nv == new_var(t, rr.s)
                     IN Ok(Emit(nv.s, IRCall(loc, var_op, <<rl.val, rr.val>>, nv.var)),
                           nv.var)

(* An if whose then-branch runs on into the else-branch.                   *)
if_falling_into_else(s, expr) ==
    LET loc == expr.location
        n1 == new_label(loc, s)
        n2 == new_label(loc, n1.s)
        n3 == IF expr.else_expr # PyNone THEN new_label(loc, n2.s) ELSE n2
        rc == visit(n3.s, expr.condition, FALSE)
    IN IF ~rc.ok THEN rc
       ELSE
       LET s1 == Emit(Emit(rc.s, CondJump(loc, rc.val, n1.label, n2.label)), n1.label)
           nv == IF expr.else_expr # PyNone THEN new_var(type_of(expr.type), s1)
                 ELSE [var |-> var_unit, s |-> s1]
           rt == visit(nv.s, expr.then_expr, FALSE)
       IN IF ~rt.ok THEN rt
          ELSE IF expr.else_expr = PyNone
          THEN Ok(Emit(Emit(rt.s, Jump(loc, n2.label)), n2.label), var_unit)
          ELSE
          LET s2 == Emit(Emit(Emit(rt.s, Copy(loc, rt.val, nv.var)),
                              Jump(loc, n2.label)), n2.label)
              re == visit(s2, expr.else_expr, FALSE)
          IN IF ~re.ok THEN re
             ELSE Ok(Emit(Emit(re.s, Copy(loc, re.val, nv.var)), n3.label), nv.var)

visit_IfExpr(s, expr) ==
    LET loc == expr.location
    IN IF expr.else_expr # PyNone
       THEN
       LET n1 == new_label(loc, s)
           n2 == new_label(loc, n1.s)
           n3 == new_label(loc, n2.s)
           l_then == n1.label
           l_else == n2.label
           l_end == n3.label
           rc == visit(n3.s, expr.condition, FALSE)
       IN IF ~rc.ok THEN rc
          ELSE
          LET s1 == Emit(Emit(rc.s, CondJump(loc, rc.val, l_then, l_else)), l_then)
              nv == new_var(type_of(expr.type), s1)
              var_result == nv.var
              rt == visit(nv.s, expr.then_expr, FALSE)
          IN IF ~rt.ok THEN rt
             ELSE
             LET s2 == Emit(Emit(Emit(rt.s, Copy(loc, rt.val, var_result)),
                                 Jump(loc, l_end)), l_else)
                 re == visit(s2, expr.else_expr, FALSE)
             IN IF ~re.ok THEN re
                ELSE Ok(Emit(Emit(re.s, Copy(loc, re.val, var_result)), l_end),
                        var_result)
       ELSE
       LET n1 == new_label(loc, s)
           n2 == new_label(loc, n1.s)
           l_then == n1.label
           l_end == n2.label
           rc == visit(n2.s, expr.condition, FALSE)
       IN IF ~rc.ok THEN rc
          ELSE
          LET s1 == Emit(Emit(rc.s, CondJump(loc, rc.val, l_then, l_end)), l_then)
              rt == visit(s1, expr.then_expr, FALSE)
          IN IF ~rt.ok THEN rt
             ELSE Ok(Emit(Emit(rt.s, Jump(loc, l_end)), l_end), var_unit)

(* print_int (print_bool) raises unless every argument variable is bound   *)
(* under its own name with type Int (Bool) somewhere in the chain.         *)
call_args_accepted(st, function, var_args) ==
    /\ function = "print_int" =>
          \A i \in 1..Len(var_args) : lookup(st, str(var_args[i]), IntTy) # PyNone
    /\ function = "print_bool" =>
          \A i \in 1..Len(var_args) : lookup(st, str(var_args[i]), BoolTy) # PyNone

visit_Call(s, expr) ==
    LET loc == expr.location
        function == expr.function
        var_func == IRVar(function)
        ra == visit_all(s, expr.arguments, 1, Len(expr.arguments))
    IN IF ~ra.ok THEN Raise(ra.s, ra.err.kind, ra.err.location)
       ELSE
       LET nv == new_var(UnitTy, ra.s)
           s1 == Emit(nv.s, IRCall(loc, var_func, ra.vals, nv.var))
       IN IF ~call_args_accepted(s1.st, function, ra.vals)
          THEN Raise(s1, "takes only " \o (IF function = "print_int" THEN "int" ELSE "bool")
                         \o " as argument", loc)
          ELSE Ok(s1, nv.var)

SymTabRef(st) == [tag |-> "SymTab", st |-> st]
Pop(s) == [s EXCEPT !.st = SubSeq(@, 1, Len(@) - 1)]

visit_Block(s, expr, final_expression) ==
    LET statements == expr.statements
        s0 == [s EXCEPT !.st = Append(@, EmptyDict)]
    IN IF expr.result_expr # PyNone
       THEN
       LET ra == visit_all(s0, statements, 1, Len(statements) - 1)
       IN IF ~ra.ok THEN Raise(Pop(ra.s), ra.err.kind, ra.err.location)
          ELSE IF final_expression THEN Ok(Pop(ra.s), SymTabRef(ra.s.st))
          ELSE LET r == visit(ra.s, expr.result_expr, FALSE)
               IN [r EXCEPT !.s = Pop(@)]
       ELSE
       LET ra == visit_all(s0, statements, 1, Len(statements))
       IN IF ~ra.ok THEN Raise(Pop(ra.s), ra.err.kind, ra.err.location)
          ELSE Ok(Pop(ra.s), var_unit)

visit_UnaryOp(s, expr) ==
    LET loc == expr.location
        neg == IF expr.op = "-" THEN "unary_-" ELSE "unary_not"
        type == IF expr.op = "-" THEN IntTy ELSE BoolTy
        var_op == lookup(s.st, neg, type)
    IN IF var_op = PyNone THEN Raise(s, "Unknown operator", loc)
       ELSE
       LET ro == visit(s, expr.expr, FALSE)
       IN IF ~ro.ok THEN ro
          ELSE
          LET nv == new_var(type, ro.s)
          IN IF str(var_op) = "unary_not" /\ lookup(nv.s.st, str(ro.val), BoolTy) = PyNone
             THEN Raise(nv.s, "requires bool", loc)
             ELSE IF str(var_op) = "unary_-" /\ lookup(nv.s.st, str(ro.val), IntTy) = PyNone
             THEN Raise(nv.s, "requires int", loc)
             ELSE Ok(Emit(nv.s, IRCall(loc, var_op, <<ro.val>>, nv.var)), nv.var)

(* The type a declaration binds its name with: [ok, t] or the exception.   *)
var_decl_type(st, expr) ==
    LET initializer == expr.initializer
        type == expr.type
    IN IF initializer.tag = "Block"
       THEN IF initializer.result_expr # PyNone
            THEN IF IsIntType(initializer.result_expr.type)
                 THEN [ok |-> TRUE, t |-> IntTy, kind |-> ""]
                 ELSE IF IsBoolType(initializer.result_expr.type)
                 THEN [ok |-> TRUE, t |-> BoolTy, kind |-> ""]
                 ELSE [ok |-> FALSE, t |-> UnitTy, kind |-> "ERROR HERE"]
            ELSE [ok |-> FALSE, t |-> UnitTy, kind |-> "Block needs a result expression"]
       ELSE IF initializer.tag = "Call" THEN [ok |-> TRUE, t |-> IntTy, kind |-> ""]
       ELSE IF IsIntType(type) THEN [ok |-> TRUE, t |-> IntTy, kind |-> ""]
       ELSE IF IsBoolType(type) THEN [ok |-> TRUE, t |-> BoolTy, kind |-> ""]
       ELSE IF ~HasName(initializer)
       THEN [ok |-> FALSE, t |-> UnitTy, kind |-> "AttributeError"]
       ELSE IF local_lookup(st, initializer.name, IntTy) # PyNone
       THEN [ok |-> TRUE, t |-> IntTy, kind |-> ""]
       ELSE IF local_lookup(st, initializer.name, BoolTy) # PyNone
       THEN [ok |-> TRUE, t |-> BoolTy, kind |-> ""]
       ELSE [ok |-> TRUE, t |-> UnitTy, kind |-> ""]

visit_VarDecl(s, expr) ==
    LET loc == expr.location
        name == expr.name
        dt == var_decl_type(s.st, expr)
    IN IF ~dt.ok
       THEN Raise(s, dt.kind,
                  IF dt.kind = "Block needs a result expression" THEN loc ELSE PyNone)
       ELSE IF local_lookup(s.st, name, dt.t) = PyNone
       THEN LET r == visit(s, expr.initializer, FALSE)
            IN IF ~r.ok THEN r
               ELSE LET nv == new_var_named(dt.t, r.s, name)
                    IN Ok(Emit(nv.s, Copy(loc, r.val, nv.var)), var_unit)
       ELSE Raise(s, "already declared in this scope", loc)

(* A loop without the jump back to its condition.                          *)
while_without_back_edge(s, expr) ==
    LET loc == expr.location
        n1 == new_label(loc, s)
        n2 == new_label(loc, n1.s)
        n3 == new_label(loc, n2.s)
        rc == visit(Emit(n3.s, n1.label), expr.condition, FALSE)
    IN IF ~rc.ok THEN rc
       ELSE
       LET s1 == Emit(Emit(rc.s, CondJump(loc, rc.val, n2.label, n3.label)), n2.label)
           rb == visit_all(s1, expr.statements, 1, Len(expr.statements))
       IN IF ~rb.ok THEN Raise(rb.s, rb.err.kind, rb.err.location)
          ELSE Ok(Emit(Emit(rb.s, Jump(loc, n3.label)), n3.label), var_unit)

visit_While(s, expr) ==
    LET loc == expr.location
        n1 == new_label(loc, s)
        n2 == new_label(loc, n1.s)
        n3 == new_label(loc, n2.s)
        l_cond == n1.label
        l_body == n2.label
        l_end == n3.label
        rc == visit(Emit(n3.s, l_cond), expr.condition, FALSE)
    IN IF ~rc.ok THEN rc
       ELSE
       LET s1 == Emit(Emit(rc.s, CondJump(loc, rc.val, l_body, l_end)), l_body)
           rb == visit_all(s1, expr.statements, 1, Len(expr.statements))
       IN IF ~rb.ok THEN Raise(rb.s, rb.err.kind, rb.err.location)
          ELSE Ok(Emit(Emit(rb.s, Jump(loc, l_cond)), l_end), var_unit)

(* The print_var branches of Program: the implicit print of an identifier, *)
(* emitted in the chain st if that chain's current frame binds the name as *)
(* Int or as Bool, and not at all otherwise.                               *)
print_var(s, st, location, result) ==
    LET name == result.arguments[1].name
        callee == IF local_lookup(st, name, IntTy) # PyNone THEN "print_int"
                  ELSE IF local_lookup(st, name, BoolTy) # PyNone THEN "print_bool"
                  ELSE ""
    IN IF callee = "" THEN Ok(s, var_unit)
       ELSE LET r == visit([s EXCEPT !.st = st],
                           Call(location, callee, result.arguments), TRUE)
            IN [r EXCEPT !.s.st = SubSeq(r.s.st, 1, Len(s.st))]

visit_Program(s, expr) ==
    LET location == expr.location
        statements == expr.statements
        result == expr.result
        n == Len(statements)
    IN IF result # PyNone
       THEN
       LET ra == visit_all(s, statements, 1, n - 1)
       IN IF ~ra.ok THEN Raise(ra.s, ra.err.kind, ra.err.location)
          ELSE
          LET rb == IF statements[n].tag = "Block"
                    THEN visit(ra.s, statements[n], TRUE)
                    ELSE Ok(ra.s, PyNone)
              block_st == rb.val
          IN IF ~rb.ok THEN rb
             ELSE
             LET r == IF block_st # PyNone /\ result.function = "print_var"
                      THEN IF block_st.tag # "SymTab"
                           THEN Raise(rb.s, "AttributeError", PyNone)
                           ELSE print_var(rb.s, block_st.st, location, result)
                      ELSE IF result.function = "print_var"
                      THEN print_var(rb.s, rb.s.st, location, result)
                      ELSE visit(rb.s, result, TRUE)
             IN IF ~r.ok THEN r ELSE Ok(r.s, var_unit)
       ELSE
       LET ra == visit_all(s, statements, 1, n)
       IN IF ~ra.ok THEN Raise(ra.s, ra.err.kind, ra.err.location)
          ELSE Ok(ra.s, var_unit)

visit(s, expr, final_expression) ==
    CASE expr.tag = "Literal" -> visit_Literal(s, expr)
      [] expr.tag = "Identifier" -> visit_Identifier(s, expr)
      [] expr.tag = "BinaryOp" ->
           IF expr.op = "=" THEN visit_Assign(s, expr)
           ELSE IF expr.op \in {"and", "or"} THEN visit_AndOr(s, expr)
           ELSE visit_BinaryOp(s, expr)
      [] expr.tag = "IfExpr" -> visit_IfExpr(s, expr)
      [] expr.tag = "Call" -> visit_Call(s, expr)
      [] expr.tag = "Block" -> visit_Block(s, expr, final_expression)
      [] expr.tag = "UnaryOp" -> visit_UnaryOp(s, expr)
      [] expr.tag = "VarDecl" -> visit_VarDecl(s, expr)
      [] expr.tag = "While" -> visit_While(s, expr)
      [] expr.tag = "Program" -> visit_Program(s, expr)
      [] OTHER -> Raise(s, "Unknown AST node type", expr.location)

(* A generate_ir that visits the tree in the caller's table itself.        *)
generate_ir_in_root_table(root_table, root_expr) ==
    LET s0 == [st |-> <<root_table>>, counter |-> 1, label_counter |-> 1,
               ins |-> <<>>, marks |-> <<>>]
        r == visit(s0, root_expr, FALSE)
    IN [raised |-> ~r.ok,
        ins |-> IF r.ok THEN r.s.ins ELSE <<>>,
        err |-> r.err,
        root_table |-> r.s.st[1],
        counter |-> r.s.counter,
        label_counter |-> r.s.label_counter,
        marks |-> IF r.ok THEN r.s.marks ELSE <<>>]

(* generate_ir: the outcome is the instruction list, or the exception that *)
(* ended the visit; root_table is the caller's table as the call left it.  *)
generate_ir(root_table, root_expr) ==
    LET s0 == [st |-> <<root_table, EmptyDict>>, counter |-> 1, label_counter |-> 1,
               ins |-> <<>>, marks |-> <<>>]
        r == visit(s0, root_expr, FALSE)
    IN [raised |-> ~r.ok,
        ins |-> IF r.ok THEN r.s.ins ELSE <<>>,
        err |-> r.err,
        root_table |-> r.s.st[1],
        counter |-> r.s.counter,
        label_counter |-> r.s.label_counter,
        marks |-> IF r.ok THEN r.s.marks ELSE <<>>]

---------------------------------------------------------------------------
(* type_checker.py.  A TypeSymTab chain is a sequence of frames, outermost *)
(* first; a frame's locals is a dict from a name to a Type.                *)

built_in_types ==
    <<[k \in {"+", "-", "*", "/", "%", "and", "or", "<", ">", "<=", ">=",
              "print_int", "print_bool", "read_int"} |->
         CASE k \in {"+", "-", "*", "/", "%"} -> FunType(<<IntTy, IntTy>>, IntTy)
           [] k \in {"and", "or"} -> FunType(<<BoolTy, BoolTy>>, BoolTy)
           [] k \in {"<", ">", "<=", ">="} -> FunType(<<IntTy, IntTy>>, BoolTy)
           [] k = "print_int" -> FunType(<<IntTy>>, UnitTy)
           [] k = "print_bool" -> FunType(<<BoolTy>>, UnitTy)
           [] k = "read_int" -> FunType(<<IntTy>>, UnitTy)]>>

(* Every exception the type checker ends with is a TypeError: the ones it  *)
(* raises itself, and the ones Python raises for an unhashable dict key,   *)
(* for `in` on an object that is no container and for iterating an object  *)
(* that is not iterable.  No message is given a source location.           *)
TcOk(node_, sym_tab_, type) ==
    [ok |-> TRUE, type |-> type, node |-> node_, sym_tab |-> sym_tab_,
     err |-> [exc |-> "", msg |-> "", location |-> PyNone]]
TcRaise(node_, sym_tab_, msg) ==
    [ok |-> FALSE, type |-> PyNone, node |-> node_, sym_tab |-> sym_tab_,
     err |-> [exc |-> "TypeError", msg |-> msg, location |-> PyNone]]

(* str, int, bool and None hash; Location and the node classes are         *)
(* dataclasses with eq and without frozen, which sets __hash__ to None.    *)
Hashable(v) == v.tag \in {"str", "int", "bool", "None"}

(* TypeSymTab.lookup: [ok, type], or the TypeError.                        *)
RECURSIVE TypeSymTab_lookup(_, _)
TypeSymTab_lookup(chain, name) ==
    LET locals == chain[Len(chain)]
    IN IF ~Hashable(name) THEN [ok |-> FALSE, type |-> PyNone, msg |-> "unhashable type"]
       ELSE IF name.tag = "str" /\ name.s \in DOMAIN locals
       THEN [ok |-> TRUE, type |-> locals[name.s], msg |-> ""]
       ELSE IF Len(chain) > 1
       THEN TypeSymTab_lookup(SubSeq(chain, 1, Len(chain) - 1), name)
       ELSE [ok |-> FALSE, type |-> PyNone, msg |-> "Unbound variable"]

IsInstanceInt(v) == v.tag \in {"int", "bool"}
IsInstanceBool(v) == v.tag = "bool"

RECURSIVE typecheck(_, _)
RECURSIVE typecheck_all(_, _, _, _)

(* The statements stmts[i..n] checked in order in the chain st, stopping   *)
(* at the first exception; types are the types returned.                   *)
typecheck_all(st, stmts, i, n) ==
    IF i > n THEN [ok |-> TRUE, sym_tab |-> st, types |-> <<>>, nodes |-> <<>>, msg |-> ""]
    ELSE LET r == typecheck(stmts[i], st)
         IN IF ~r.ok
            THEN [ok |-> FALSE, sym_tab |-> r.sym_tab, types |-> <<>>,
                  nodes |-> <<r.node>>, msg |-> r.err.msg]
            ELSE LET rest == typecheck_all(r.sym_tab, stmts, i + 1, n)
                 IN [rest EXCEPT !.types = <<r.type>> \o @, !.nodes = <<r.node>> \o @]

(* case ast.Literal(value) *)
typecheck_Literal(node_, st) ==
    LET value == MatchArgs(node_)[1]
    IN IF IsInstanceInt(value) THEN TcOk(node_, st, IntTy)
       ELSE IF IsInstanceBool(value) THEN TcOk(node_, st, BoolTy)
       ELSE TcRaise(node_, st, "Unsupported literal type")

(* case ast.BinaryOp(left, op, right).  `op not in built_in_types` asks a  *)
(* TypeSymTab, which defines neither __contains__ nor __iter__, whether it *)
(* contains op: Python raises TypeError there, whatever op is.             *)
typecheck_BinaryOp(node_, st) ==
    LET left == MatchArgs(node_)[1]
        op == MatchArgs(node_)[2]
        right == MatchArgs(node_)[3]
    IN IF op = PyStr("==") \/ op = PyStr("!=")
       THEN LET r1 == typecheck(left, st)
            IN IF ~r1.ok THEN TcRaise(node_, r1.sym_tab, r1.err.msg)
               ELSE LET r2 == typecheck(right, r1.sym_tab)
                    IN IF ~r2.ok THEN TcRaise(node_, r2.sym_tab, r2.err.msg)
                       ELSE IF r1.type # r2.type
                       THEN TcRaise(node_, r2.sym_tab,
                                    "requires two operands of the same type")
                       ELSE TcOk([node_ EXCEPT !.type = r1.type], r2.sym_tab, r1.type)
       ELSE TcRaise(node_, st, "argument of type 'TypeSymTab' is not iterable")

(* case ast.Call(function, arguments) *)
typecheck_Call(node_, st) ==
    LET function == MatchArgs(node_)[1]
        arguments == MatchArgs(node_)[2]
        rf == typecheck(function, st)
    IN IF ~rf.ok THEN TcRaise(node_, rf.sym_tab, rf.err.msg)
       ELSE IF rf.type.tag # "FunType" THEN TcRaise(node_, rf.sym_tab, "is not callable")
       ELSE IF arguments.tag # "list"
       THEN TcRaise(node_, rf.sym_tab, "Unsupported AST node")
       ELSE LET ra == typecheck_all(rf.sym_tab, arguments.items, 1, Len(arguments.items))
            IN IF ~ra.ok THEN TcRaise(node_, ra.sym_tab, ra.msg)
               ELSE IF ra.types # rf.type.param_types
               THEN TcRaise(node_, ra.sym_tab, "Function expects")
               ELSE TcOk([node_ EXCEPT !.type = rf.type.return_type], ra.sym_tab,
                         rf.type.return_type)

(* case ast.Identifier(name) *)
typecheck_Identifier(node_, st) ==
    LET name == MatchArgs(node_)[1]
        r == TypeSymTab_lookup(st, name)
    IN IF ~r.ok THEN TcRaise(node_, st, r.msg)
       ELSE TcOk([node_ EXCEPT !.type = r.type], st, r.type)

(* case ast.VarDecl(name, initializer, datatype) *)
typecheck_VarDecl(node_, st) ==
    LET name == MatchArgs(node_)[1]
        initializer == MatchArgs(node_)[2]
        datatype == MatchArgs(node_)[3]
        ri == typecheck(initializer, st)
        n == Len(ri.sym_tab)
    IN IF ~ri.ok THEN TcRaise(node_, ri.sym_tab, ri.err.msg)
       ELSE IF ~Hashable(name) THEN TcRaise(node_, ri.sym_tab, "unhashable type")
       ELSE IF name.tag = "str" /\ name.s \in DOMAIN ri.sym_tab[n]
       THEN TcRaise(node_, ri.sym_tab, "already declared")
       ELSE IF datatype # PyNone /\ datatype # ri.type
       THEN TcRaise(node_, ri.sym_tab, "Variable expects")
       ELSE TcOk([node_ EXCEPT !.type = UnitTy],
                 [ri.sym_tab EXCEPT ![n] = DictSet(@, name.s, ri.type)], UnitTy)

(* case ast.UnaryOp(op, expr) *)
typecheck_UnaryOp(node_, st) ==
    LET op == MatchArgs(node_)[1]
        expr == MatchArgs(node_)[2]
        r == typecheck(expr, st)
    IN IF ~r.ok THEN TcRaise(node_, r.sym_tab, r.err.msg)
       ELSE IF op = PyStr("-")
       THEN IF r.type # IntTy THEN TcRaise(node_, r.sym_tab, "Unary '-' expects Int")
            ELSE TcOk([node_ EXCEPT !.type = IntTy], r.sym_tab, IntTy)
       ELSE IF op = PyStr("not")
       THEN IF r.type # BoolTy THEN TcRaise(node_, r.sym_tab, "Unary 'not' expects Bool")
            ELSE TcOk([node_ EXCEPT !.type = BoolTy], r.sym_tab, BoolTy)
       ELSE TcRaise(node_, r.sym_tab, "Unknown unary operator")

(* case ast.Block(statements, result_expr): the statements are checked in  *)
(* a new frame, which is dropped when the block is left.                   *)
typecheck_Block(node_, st) ==
    LET statements == MatchArgs(node_)[1]
    IN IF statements.tag # "list" THEN TcRaise(node_, st, "object is not iterable")
       ELSE LET ra == typecheck_all(Append(st, EmptyDict), statements.items, 1,
                                    Len(statements.items))
                outer == SubSeq(ra.sym_tab, 1, Len(st))
                result_type == IF ra.types = <<>> THEN UnitTy ELSE ra.types[Len(ra.types)]
            IN IF ~ra.ok THEN TcRaise(node_, outer, ra.msg)
               ELSE TcOk([node_ EXCEPT !.type = result_type], outer, result_type)

(* case ast.IfExpr(condition, then_expr, else_expr) *)
typecheck_IfExpr(node_, st) ==
    LET condition == MatchArgs(node_)[1]
        then_expr == MatchArgs(node_)[2]
        else_expr == MatchArgs(node_)[3]
        rc == typecheck(condition, st)
    IN IF ~rc.ok THEN TcRaise(node_, rc.sym_tab, rc.err.msg)
       ELSE IF rc.type # BoolTy THEN TcRaise(node_, rc.sym_tab, "If condition must be Bool")
       ELSE LET rt == typecheck(then_expr, rc.sym_tab)
            IN IF ~rt.ok THEN TcRaise(node_, rt.sym_tab, rt.err.msg)
               ELSE IF else_expr # PyNone
               THEN LET re == typecheck(else_expr, rt.sym_tab)
                    IN IF ~re.ok THEN TcRaise(node_, re.sym_tab, re.err.msg)
                       ELSE IF rt.type # re.type
                       THEN TcRaise(node_, re.sym_tab, "If branches must have the same type")
                       ELSE TcOk([node_ EXCEPT !.type = then_expr], re.sym_tab, then_expr)
               ELSE TcOk([node_ EXCEPT !.type = UnitTy], rt.sym_tab, UnitTy)

(* case ast.While(condition, statements) *)
typecheck_While(node_, st) ==
    LET condition == MatchArgs(node_)[1]
        statements == MatchArgs(node_)[2]
        rc == typecheck(condition, st)
    IN IF ~rc.ok THEN TcRaise(node_, rc.sym_tab, rc.err.msg)
       ELSE IF rc.type # BoolTy THEN TcRaise(node_, rc.sym_tab, "If condition must be Bool")
       ELSE IF statements.tag # "list"
       THEN TcRaise(node_, rc.sym_tab, "object is not iterable")
       ELSE LET ra == typecheck_all(rc.sym_tab, statements.items, 1, Len(statements.items))
            IN IF ~ra.ok THEN TcRaise(node_, ra.sym_tab, ra.msg)
               ELSE TcOk([node_ EXCEPT !.type = UnitTy], ra.sym_tab, UnitTy)

typecheck(node_, st) ==
    CASE node_.tag = "Literal" -> typecheck_Literal(node_, st)
      [] node_.tag = "BinaryOp" -> typecheck_BinaryOp(node_, st)
      [] node_.tag = "Call" -> typecheck_Call(node_, st)
      [] node_.tag = "Identifier" -> typecheck_Identifier(node_, st)
      [] node_.tag = "VarDecl" -> typecheck_VarDecl(node_, st)
      [] node_.tag = "UnaryOp" -> typecheck_UnaryOp(node_, st)
      [] node_.tag = "Block" -> typecheck_Block(node_, st)
      [] node_.tag = "IfExpr" -> typecheck_IfExpr(node_, st)
      [] node_.tag = "While" -> typecheck_While(node_, st)
      [] OTHER -> TcRaise(node_, st, "Unsupported AST node")

---------------------------------------------------------------------------
(* The machine behaviour of an instruction list, as generate_assembly      *)
(* lowers it: every IR variable is one stack slot; a bool is stored as 1   *)
(* or 0; CondJump compares its slot with 0, jumps to then_label when it is *)
(* not 0 and to else_label otherwise; a Label is only a place.             *)

(* The place of the Label instruction that defines a label name (0: none). *)
LabelIndex(ins, name) ==
    IF \E i \in 1..Len(ins) : ins[i].tag = "Label" /\ ins[i].name = name
    THEN CHOOSE i \in 1..Len(ins) : ins[i].tag = "Label" /\ ins[i].name = name
    ELSE 0

(* The operators of the intrinsics table, on the values of their operand   *)
(* slots; the result is what the table entry leaves in %rax.               *)
Intrinsics == {"+", "-", "*", "/", "%", "<", "<=", ">", ">=", "==", "!=",
               "unary_-", "unary_not"}
Truth(b) == IF b THEN 1 ELSE 0
TruncDiv(a, b) ==
    LET q == (IF a < 0 THEN -a ELSE a) \div (IF b < 0 THEN -b ELSE b)
    IN IF (a < 0) = (b < 0) THEN q ELSE -q
intrinsic(fun, a) ==
    CASE fun = "+" -> a[1] + a[2]
      [] fun = "-" -> a[1] - a[2]
      [] fun = "*" -> a[1] * a[2]
      [] fun = "/" -> TruncDiv(a[1], a[2])
      [] fun = "%" -> a[1] - a[2] * TruncDiv(a[1], a[2])
      [] fun = "<" -> Truth(a[1] < a[2])
      [] fun = "<=" -> Truth(a[1] <= a[2])
      [] fun = ">" -> Truth(a[1] > a[2])
      [] fun = ">=" -> Truth(a[1] >= a[2])
      [] fun = "==" -> Truth(a[1] = a[2])
      [] fun = "!=" -> Truth(a[1] # a[2])
      [] fun = "unary_-" -> 0 - a[1]
      [] fun = "unary_not" -> Truth(a[1] = 0)

(* What a slot that was never written may hold, what a runtime function    *)
(* may leave in %rax, and what read_int may read.                          *)
Junk == {0, 1}

(* The slots an instruction reads.                                         *)
Reads(insn) ==
    CASE insn.tag = "Copy" -> {insn.source}
      [] insn.tag = "CondJump" -> {insn.cond}
      [] insn.tag = "Call" -> {insn.args[i] : i \in 1..Len(insn.args)}
      [] OTHER -> {}

(* The junk an instruction can meet: any, if it reads a slot never written *)
(* or calls a runtime function; else none, and 0 stands for it.            *)
JunkRead(insn, m) ==
    IF \/ \E var \in Reads(insn) : str(var) \notin DOMAIN m
       \/ insn.tag = "Call" /\ str(insn.fun) \notin Intrinsics
    THEN Junk
    ELSE {0}

(* The value of a slot: what was last written to it, else junk.            *)
Slot(m, var, junk) == IF str(var) \in DOMAIN m THEN m[str(var)] ELSE junk

Store(m, var, value) == DictSet(m, str(var), value)

(* One instruction executed: the next ip, memory and output.               *)
Execute(insn, ins, at, m, o, junk) ==
    CASE insn.tag = "Label" -> [ip |-> at + 1, mem |-> m, out |-> o]
      [] insn.tag = "LoadIntConst" ->
           [ip |-> at + 1, mem |-> Store(m, insn.dest, insn.value), out |-> o]
      [] insn.tag = "LoadBoolConst" ->
           [ip |-> at + 1, mem |-> Store(m, insn.dest, Truth(insn.value)), out |-> o]
      [] insn.tag = "Copy" ->
           [ip |-> at + 1, mem |-> Store(m, insn.dest, Slot(m, insn.source, junk)),
            out |-> o]
      [] insn.tag = "Jump" ->
           [ip |-> LabelIndex(ins, insn.label.name), mem |-> m, out |-> o]
      [] insn.tag = "CondJump" ->
           [ip |-> IF Slot(m, insn.cond, junk) # 0
                   THEN LabelIndex(ins, insn.then_label.name)
                   ELSE LabelIndex(ins, insn.else_label.name),
            mem |-> m, out |-> o]
      [] insn.tag = "Call" ->
           LET a == [i \in 1..Len(insn.args) |-> Slot(m, insn.args[i], junk)]
           IN IF str(insn.fun) \in Intrinsics
              THEN [ip |-> at + 1,
                    mem |-> Store(m, insn.dest, intrinsic(str(insn.fun), a)),
                    out |-> o]
              ELSE [ip |-> at + 1,
                    mem |-> Store(m, insn.dest, junk),
                    out |-> Append(o, [fun |-> str(insn.fun),
                                       rdi |-> IF Len(a) = 0 THEN junk
                                               ELSE IF Len(a) > 6 THEN a[6]
                                               ELSE a[Len(a)]])]

(* A division by zero traps; a jump to a label that is not defined does    *)
(* not assemble.                                                           *)
Traps(insn, m, junk) ==
    /\ insn.tag = "Call"
    /\ str(insn.fun) \in {"/", "%"}
    /\ Slot(m, insn.args[2], junk) = 0

---------------------------------------------------------------------------
(* assembly_generator.py: the assembly text of an instruction list, as the *)
(* sequence of its lines.                                                  *)

(* A LoadIntConst of an integer outside the range of the model's integers: *)
(* the value is high * 2^31 + low with 0 <= low < 2^31.  The other         *)
(* LoadIntConst records have no field high and value is the integer.       *)
LoadWideConst(location, high, low, dest) ==
    [tag |-> "LoadIntConst", location |-> location, value |-> low, high |-> high,
     dest |-> dest]

(* The quotient of a LoadIntConst's value by 2^31, rounded down.           *)
High(insn) ==
    IF "high" \in DOMAIN insn THEN insn.high
    ELSE IF insn.value < 0 THEN -1 ELSE 0

(* f"{value}": the decimal text of the value where the model's integers    *)
(* hold it, else a text that tells any two values apart.                   *)
ValueText(insn) ==
    IF "high" \notin DOMAIN insn THEN ToString(insn.value)
    ELSE IF insn.high = 0 THEN ToString(insn.value)
    ELSE IF insn.high = -1 THEN ToString((insn.value - 2147483647) - 1)
    ELSE ToString(insn.high) \o "*2^31+" \o ToString(insn.value)

(* A range test that lets 2^31 through as well.                            *)
at_most_2_31(insn) == High(insn) \in {-1, 0} \/ (High(insn) = 1 /\ insn.value = 0)

(* -2**31 <= value < 2**31 *)
fits_imm32(insn) == High(insn) \in {-1, 0}

(* add(v) of get_all_ir_variables.                                         *)
add(result_list, v) ==
    IF \E i \in 1..Len(result_list) : result_list[i] = v THEN result_list
    ELSE Append(result_list, v)

(* get_all_ir_variables: the destinations of the loads, copies and calls   *)
(* and the sources of the copies, in the order they first appear.          *)
RECURSIVE get_all_ir_variables_from(_, _, _)
get_all_ir_variables_from(instructions, i, result_list) ==
    IF i > Len(instructions) THEN result_list
    ELSE LET insn == instructions[i]
         IN get_all_ir_variables_from(instructions, i + 1,
                CASE insn.tag \in {"LoadBoolConst", "LoadIntConst", "Call"} ->
                       add(result_list, insn.dest)
                  [] insn.tag = "Copy" -> add(add(result_list, insn.source), insn.dest)
                  [] OTHER -> result_list)

get_all_ir_variables(instructions) == get_all_ir_variables_from(instructions, 1, <<>>)

(* Locals.__init__: the i-th variable is at -8*i(%rbp).                    *)
Locals(variables) ==
    [var_to_location |->
         [v \in {variables[i] : i \in 1..Len(variables)} |->
              LET i == CHOOSE j \in 1..Len(variables) :
                           variables[j] = v /\ \A k \in (j + 1)..Len(variables) :
                                                   variables[k] # v
              IN ToString(-8 * i) \o "(%rbp)"],
     stack_used |-> Len(variables) * 8]

stack_used(locals) == locals.stack_used
Locals_len(locals) == Cardinality(DOMAIN locals.var_to_location)

(* Locals.get_ref raises KeyError for a variable that has no slot.         *)
HasRef(locals, v) == v \in DOMAIN locals.var_to_location
get_ref(locals, v) == locals.var_to_location[v]

(* The first lines of the text, up to the subq that reserves the frame.    *)
Prologue(locals) ==
    <<".extern print_int", ".extern print_bool", ".extern read_int", ".section .text",
      ".global main", ".type main, @function", "main:", "pushq %rbp",
      "movq %rsp, %rbp", "subq $" \o ToString(8 * Locals_len(locals)) \o ", %rsp">>

Epilogue == <<"movq $0, %rax", "movq %rbp, %rsp", "popq %rbp", "ret">>

(* The text an intrinsic emits for its operands: it is the table's, and    *)
(* stands here as one line that names the operator and the operands.       *)
RECURSIVE Joined(_)
Joined(refs) ==
    IF refs = <<>> THEN "" ELSE " " \o refs[1] \o Joined(SubSeq(refs, 2, Len(refs)))

intrinsic_lines(fun, arg_refs) == <<"intrinsic " \o fun \o Joined(arg_refs) \o " -> %rax">>

(* The variables whose slot the lowering of an instruction looks up, in    *)
(* the order of the lookups.                                               *)
Lookups(insn) ==
    CASE insn.tag \in {"LoadIntConst", "LoadBoolConst"} -> <<insn.dest>>
      [] insn.tag = "Copy" -> <<insn.source, insn.dest>>
      [] insn.tag = "CondJump" -> <<insn.cond>>
      [] insn.tag = "Call" -> insn.args \o <<insn.dest>>
      [] OTHER -> <<>>

(* The lines of one instruction after its comment line, for an instruction *)
(* whose variables all have a slot.                                        *)
Lowered(insn, locals) ==
    CASE insn.tag = "Label" -> <<"", "." \o insn.name \o ":">>
      [] insn.tag = "LoadIntConst" ->
           IF fits_imm32(insn)
           THEN <<"movq $" \o ValueText(insn) \o ", " \o get_ref(locals, insn.dest)>>
           ELSE <<"movabsq $" \o ValueText(insn) \o ", %rax",
                  "movq %rax, " \o get_ref(locals, insn.dest)>>
      [] insn.tag = "Jump" -> <<"jmp ." \o insn.label.name>>
      [] insn.tag = "LoadBoolConst" ->
           <<"movq $" \o ToString(Truth(insn.value)) \o ", " \o get_ref(locals, insn.dest)>>
      [] insn.tag = "Copy" ->
           <<"movq " \o get_ref(locals, insn.source) \o ", %rax",
             "movq %rax, " \o get_ref(locals, insn.dest)>>
      [] insn.tag = "CondJump" ->
           <<"cmpq $0, " \o get_ref(locals, insn.cond),
             "jne ." \o insn.then_label.name,
             "jmp ." \o insn.else_label.name>>
      [] insn.tag = "Call" ->
           LET arg_refs == [i \in 1..Len(insn.args) |-> get_ref(locals, insn.args[i])]
               passed == IF Len(arg_refs) > 6 THEN 6 ELSE Len(arg_refs)
           IN IF str(insn.fun) \in Intrinsics
              THEN intrinsic_lines(str(insn.fun), arg_refs)
                   \o <<"movq %rax, " \o get_ref(locals, insn.dest)>>
              ELSE [i \in 1..passed |-> "movq " \o arg_refs[i] \o ", %rdi"]
                   \o <<"callq " \o str(insn.fun),
                        "movq %rax, " \o get_ref(locals, insn.dest)>>

(* The loop over the instructions from the i-th on: starts[k] is the place *)
(* of the comment line of the k-th instruction.                            *)
RECURSIVE lower_from(_, _, _, _, _)
lower_from(instructions, i, locals, lines, starts) ==
    IF i > Len(instructions)
    THEN [raised |-> FALSE, lines |-> lines \o Epilogue, starts |-> starts, key |-> PyNone]
    ELSE LET insn == instructions[i]
             looked == Lookups(insn)
             missing == {k \in 1..Len(looked) : ~HasRef(locals, looked[k])}
         IN IF missing # {}
            THEN [raised |-> TRUE, lines |-> <<>>, starts |-> starts,
                  key |-> looked[CHOOSE k \in missing : \A j \in missing : k <= j]]
            ELSE lower_from(instructions, i + 1, locals,
                            lines \o <<"# " \o insn.tag>> \o Lowered(insn, locals),
                            Append(starts, Len(lines) + 1))

(* generate_assembly: the lines of the text, or the KeyError of get_ref;   *)
(* locals is the Locals object the call built.                             *)
generate_assembly(instructions) ==
    LET locals == Locals(get_all_ir_variables(instructions))
        r == lower_from(instructions, 1, locals, Prologue(locals), <<>>)
    IN [raised |-> r.raised, lines |-> r.lines, starts |-> r.starts, key |-> r.key,
        locals |-> locals]

---------------------------------------------------------------------------
(* The source programs of the model, as the parser builds them.  Every     *)
(* program is some of the declarations                                     *)
(*     var x = 3; var a = true; var b = false;                             *)
(* on line 1 and one statement on line 2.                                  *)

MaxDepth == 2   \* how deep and/or nest in an operand of and/or
MaxHits == 4    \* how often the machine may execute one instruction
MaxCompiles == 2  \* how many calls of generate_ir one process makes

IntLit(c, n) == parse_int_literal(Location(2, c), PyInt(n))
BoolLit(c, v) == parse_int_literal(Location(2, c), PyBool(v))
Id(c, name) == parse_identifier(Location(2, c), name)

Declarations ==
    <<parse_var_decl(Location(1, 1), "x", parse_int_literal(Location(1, 9), PyInt(3))),
      parse_var_decl(Location(1, 12), "a", parse_int_literal(Location(1, 20), PyBool(TRUE))),
      parse_var_decl(Location(1, 26), "b", parse_int_literal(Location(1, 34), PyBool(FALSE)))>>

IntAtoms(c) == {IntLit(c, 0), IntLit(c, 2), Id(c, "x")}
BoolAtoms(c) == {BoolLit(c, TRUE), BoolLit(c, FALSE), Id(c, "a"), Id(c, "b")}

(* l op r and -e over the atoms.                                           *)
IntOps(c) ==
    {parse_expression(Location(2, c), l, op, r) :
         l \in IntAtoms(2 * c), op \in {"+", "-", "*", "/", "%"}, r \in IntAtoms(2 * c + 1)}
    \cup {parse_unary_op(Location(2, c), "-", e) : e \in IntAtoms(2 * c)}

(* Comparisons and not e over the atoms.                                   *)
BoolOps(c) ==
    {parse_expression(Location(2, c), l, op, r) :
         l \in IntAtoms(2 * c), op \in {"<", "=="}, r \in IntAtoms(2 * c + 1)}
    \cup {parse_unary_op(Location(2, c), "not", e) : e \in BoolAtoms(2 * c)}

(* { print_int(7); e }: a block whose value is e and which prints.         *)
EffectBlock(c, e) ==
    parse_block(Location(2, c),
                <<parse_function_call(Location(2, c), "print_int", <<IntLit(c, 7)>>), e>>,
                FALSE)

(* The operands of and/or that are not and/or themselves: a literal, a     *)
(* variable, a block that prints.                                          *)
AndOrAtoms(c) == {BoolLit(c, TRUE), Id(c, "b"), EffectBlock(c, BoolLit(2 * c, FALSE))}

(* L and R, L or R at column c, where one operand is an atom and the other *)
(* one nests and/or at most d - 1 deep.                                    *)
RECURSIVE AndOrExprs(_, _)
AndOrExprs(d, c) ==
    IF d = 0 THEN {}
    ELSE LET deep(k) == AndOrAtoms(k) \cup AndOrExprs(d - 1, k)
         IN {parse_expression(Location(2, c), l, op, r) :
                 op \in {"and", "or"},
                 <<l, r>> \in (AndOrAtoms(2 * c) \X deep(2 * c + 1))
                              \cup (deep(2 * c) \X AndOrAtoms(2 * c + 1))}

(* if c then t else e, if c then t: the ones parse_if_expression returns.  *)
IfExprs ==
    {parse_if_expression(Location(2, 1), w[1], w[2], w[3]) :
         w \in {v \in (BoolAtoms(2) \cup BoolOps(2))
                      \X {IntLit(3, 2), Id(3, "x"), BoolLit(3, TRUE)}
                      \X {IntLit(4, 0), Id(4, "x"), BoolLit(4, FALSE), Id(4, "b"), PyNone} :
                   IfParses(v[1], v[2], v[3])}}

(* Blocks: { e }, { var y = e; y }, { var y = e; y + 2 }, and the same     *)
(* closed with a semicolon.                                                *)
BlockExprs ==
    {parse_block(Location(2, 1), stmts, semi) :
         semi \in BOOLEAN,
         stmts \in {<<e>> : e \in IntAtoms(2) \cup BoolAtoms(2)}
            \cup {<<parse_var_decl(Location(2, 2), "y", e), Id(3, "y")>> :
                      e \in IntAtoms(2) \cup BoolAtoms(2)}
            \cup {<<parse_var_decl(Location(2, 2), "y", e),
                    parse_expression(Location(2, 3), Id(6, "y"), "+", IntLit(7, 2))>> :
                      e \in IntAtoms(2)}}

(* Statements without a value: a declaration, a loop, an assignment, a     *)
(* chained assignment, calls.                                              *)
OtherStmts ==
    {parse_var_decl(Location(2, 1), name, e) :
         name \in {"x", "y", "x2"}, e \in IntAtoms(2) \cup IntOps(2) \cup BoolAtoms(2)}
    \cup {parse_while(Location(2, 1),
                      parse_expression(Location(2, 2), Id(4, "x"), "<", IntLit(5, k)),
                      <<parse_expression(Location(2, 3), Id(6, "x"), "=",
                            parse_expression(Location(2, 7), Id(14, "x"), "+", IntLit(15, 1)))>>) :
              k \in {0, 4, 5, 6}}
    \cup {parse_expression(Location(2, 1), Id(2, name), "=", e) :
              name \in {"x", "a", "y"}, e \in IntAtoms(3) \cup BoolAtoms(3)}
    \cup {parse_expression(Location(2, 1),
                           parse_expression(Location(2, 2), Id(4, n1), "=", Id(5, n2)),
                           "=", e) :
              n1 \in {"x", "a"}, n2 \in {"x", "b", "y"}, e \in IntAtoms(3)}
    \cup {parse_function_call(Location(2, 1), f, <<e>>) :
              f \in {"print_int", "print_bool"},
              e \in IntAtoms(2) \cup IntOps(2) \cup BoolAtoms(2)}
    \cup {parse_function_call(Location(2, 1), "read_int", <<>>)}

(* Calls f(1, ..., k) and print_int(1, ..., k), a call that passes one    *)
(* variable twice, and calls whose argument is an if without else.         *)
CallStmts ==
    {parse_function_call(Location(2, 1), f, [i \in 1..k |-> IntLit(i + 1, i)]) :
         f \in {"f", "print_int"}, k \in {0, 2, 3, 6, 7}}
    \cup {parse_function_call(Location(2, 1), "f", <<Id(2, "x"), Id(3, "x")>>),
          parse_function_call(Location(2, 1), "f", <<Id(2, "x"), Id(3, "a"), Id(4, "x")>>)}
    \cup {parse_function_call(Location(2, 1), f,
              <<parse_if_expression(Location(2, 2), BoolLit(3, TRUE), IntLit(4, 1), PyNone)>>) :
              f \in {"f", "read_int"}}

(* Assignments inside a block to variables declared outside it or in it:   *)
(* { n1 = e; }, { n1 = n2 = e; }, { var y = 1; n1 = n2 = e; }.             *)
ScopedStmts ==
    {parse_block(Location(2, 1),
                 <<parse_expression(Location(2, 2), Id(3, n1), "=", e)>>, TRUE) :
         n1 \in {"x", "z"}, e \in {IntLit(4, 5)}}
    \cup {parse_block(Location(2, 1),
                      decl \o <<parse_expression(Location(2, 2),
                                    parse_expression(Location(2, 3), Id(4, n1), "=", Id(5, n2)),
                                    "=", IntLit(6, 5))>>,
                      TRUE) :
              n1 \in {"x", "y"}, n2 \in {"x", "y", "b"},
              decl \in {<<>>, <<parse_var_decl(Location(2, 7), "y", IntLit(8, 1))>>}}

LastStatements ==
    IntAtoms(1) \cup BoolAtoms(1) \cup IntOps(1) \cup BoolOps(1) \cup IfExprs
    \cup BlockExprs \cup OtherStmts

(* var x = 0; while x < 3 do { x = x + 1 }                                 *)
CountingLoop ==
    parse_program(
        <<parse_var_decl(Location(1, 1), "x", parse_int_literal(Location(1, 9), PyInt(0))),
          parse_while(Location(2, 1),
                      parse_expression(Location(2, 2), Id(4, "x"), "<", IntLit(5, 3)),
                      <<parse_expression(Location(2, 3), Id(6, "x"), "=",
                            parse_expression(Location(2, 7), Id(14, "x"), "+",
                                             IntLit(15, 1)))>>)>>,
        FALSE)

(* var x = 3; var x = true; and var x = true; var x = 3; followed by a    *)
(* use of x: f(x); or x = 5; or x = false;                                 *)
TwiceDeclared ==
    LET int == parse_var_decl(Location(1, 1), "x", parse_int_literal(Location(1, 9), PyInt(3)))
        bool == parse_var_decl(Location(1, 12), "x",
                               parse_int_literal(Location(1, 20), PyBool(TRUE)))
    IN {parse_program(decls \o <<use>>, TRUE) :
            decls \in {<<int, bool>>, <<bool, int>>},
            use \in {parse_function_call(Location(2, 1), "f", <<Id(2, "x")>>),
                     parse_expression(Location(2, 1), Id(2, "x"), "=", IntLit(3, 5)),
                     parse_expression(Location(2, 1), Id(2, "x"), "=", BoolLit(3, FALSE))}}

(* Source variables named like temporaries, after the first k of the       *)
(* declarations: var x1 = 5; var x3 = true; f(x1); f(x3);                  *)
TemporaryNamed ==
    {parse_program(SubSeq(Declarations, 1, k) \o <<stmt>>, TRUE) :
         k \in 0..3,
         stmt \in {parse_var_decl(Location(2, 1), "x1", IntLit(2, 5)),
                   parse_var_decl(Location(2, 1), "x3", BoolLit(2, TRUE)),
                   parse_function_call(Location(2, 1), "f", <<Id(2, "x1")>>),
                   parse_function_call(Location(2, 1), "f", <<Id(2, "x3")>>)}}

(* var x = o; { var x = i; use; } f(x); where o and i are 3 or true and   *)
(* use is f(x) or x = 7 or x = false.                                      *)
Shadowing ==
    LET lit(c, int) == IF int THEN IntLit(c, 3) ELSE BoolLit(c, TRUE)
    IN {parse_program(
            <<parse_var_decl(Location(1, 1), "x", lit(9, o)),
              parse_block(Location(2, 1),
                          <<parse_var_decl(Location(2, 2), "x", lit(3, i)), use>>,
                          TRUE),
              parse_function_call(Location(3, 1), "f", <<Identifier(Location(3, 2), "x")>>)>>,
            TRUE) :
            o \in BOOLEAN, i \in BOOLEAN,
            use \in {parse_function_call(Location(2, 4), "f", <<Id(5, "x")>>),
                     parse_expression(Location(2, 4), Id(5, "x"), "=", IntLit(6, 7)),
                     parse_expression(Location(2, 4), Id(5, "x"), "=", BoolLit(6, FALSE))}}

(* The statement on line 2 with and without a closing semicolon after the  *)
(* three declarations or after the first k of them; the nests of and/or    *)
(* without the semicolon.                                                  *)
Programs ==
    {parse_program(Declarations \o <<e>>, semi) : e \in LastStatements, semi \in BOOLEAN}
    \cup {parse_program(SubSeq(Declarations, 1, k) \o <<e>>, semi) :
              k \in 0..2, e \in IntAtoms(1) \cup BoolAtoms(1) \cup OtherStmts,
              semi \in BOOLEAN}
    \cup {parse_program(Declarations \o <<e>>, FALSE) : e \in AndOrExprs(MaxDepth, 1)}
    \cup {parse_program(Declarations \o <<e>>, semi) :
              e \in CallStmts \cup ScopedStmts, semi \in BOOLEAN}
    \cup {CountingLoop}
    \cup TwiceDeclared
    \cup TemporaryNamed
    \cup Shadowing

(* Instruction lists handed to generate_assembly directly: one constant    *)
(* at and around the bounds of a 32-bit immediate, two constants, calls    *)
(* with k arguments, a jump on a variable, a copy of unit.                 *)
WideValues ==
    {<<0, 5>>, <<0, 2147483647>>, <<1, 0>>, <<1, 1>>, <<2, 705032704>>,
     <<-1, 0>>, <<-1, 2147483643>>, <<-2, 2147483647>>}

GivenLists ==
    LET l == Location(1, 1)
        x(i) == IRVar("x" \o ToString(i))
    IN {<<LoadWideConst(l, v[1], v[2], x(1))>> : v \in WideValues}
       \cup {<<LoadIntConst(l, n, x(1))>> : n \in {5, -5, 0}}
       \cup {<<LoadWideConst(l, -2, 2147483647, x(1)), LoadWideConst(l, -1, 0, x(2)),
               LoadWideConst(l, 0, 2147483647, x(3)), LoadWideConst(l, 1, 0, x(4))>>}
       \cup {<<LoadWideConst(l, v[1], v[2], x(1)), LoadWideConst(l, w[1], w[2], x(2)),
               IRCall(l, IRVar("+"), <<x(1), x(2)>>, x(3))>> :
                 v \in {<<1, 0>>, <<-1, 0>>}, w \in {<<0, 2147483647>>, <<-2, 2147483647>>}}
       \cup {[i \in 1..k |-> LoadIntConst(l, i, x(i))]
                 \o <<IRCall(l, IRVar(f), [i \in 1..k |-> x(i)], x(k + 1))>> :
                 k \in 0..7, f \in {"f", "print_int"}}
       \cup {<<LoadBoolConst(l, TRUE, x(1)), CondJump(l, x(c), Label(l, "L1"), Label(l, "L2")),
               Label(l, "L1"), Label(l, "L2")>> : c \in {1, 2}}
       \cup {<<Copy(l, var_unit, x(1))>>, <<Copy(l, x(1), x(1)), Jump(l, Label(l, "L1"))>>}

Given(ins) ==
    [raised |-> FALSE, ins |-> ins, err |-> NoErr, root_table |-> GLOBAL_SYMTAB,
     counter |-> 1, label_counter |-> 1, marks |-> <<>>]

---------------------------------------------------------------------------
(* The trees and symbol tables typecheck is called on: the statements      *)
(* above, whole programs, and trees built with the node classes directly   *)
(* (every type field then holds the classes' default).                     *)

Lit(c, value) == Literal(Location(3, c), value, UnitTypeClass)
Bin(c, left, op, right) == BinaryOp(Location(3, c), left, op, right, UnitTypeClass)
If(c, condition, then_expr, else_expr) ==
    IfExpr(Location(3, c), condition, then_expr, else_expr, UnitTypeClass)

BuiltNodes ==
    {Lit(1, PyInt(1)), Lit(1, PyBool(TRUE)), Lit(1, PyBool(FALSE)), Lit(1, PyNone),
     Identifier(Location(3, 1), "x"), Identifier(Location(3, 1), "z"),
     Call(Location(3, 1), "print_int", <<Lit(2, PyInt(1))>>),
     Call(Location(3, 1), "print_int", <<Lit(2, PyBool(TRUE))>>),
     Call(Location(3, 1), "x", <<Lit(2, PyInt(1))>>),
     If(1, Lit(2, PyBool(TRUE)), Lit(3, PyInt(1)), Lit(4, PyInt(2))),
     If(1, Lit(2, PyBool(TRUE)), Lit(3, PyInt(1)), Lit(4, PyBool(FALSE))),
     If(1, Lit(2, PyInt(1)), Lit(3, PyInt(1)), Lit(4, PyInt(2))),
     If(1, Identifier(Location(3, 2), "a"), Identifier(Location(3, 3), "x"),
        Identifier(Location(3, 4), "x"))}
    \cup {Bin(1, Lit(2, l), op, Lit(3, r)) :
              l \in {PyInt(1), PyBool(TRUE)},
              op \in {"+", "<", "and", "==", "!=", "^"},
              r \in {PyInt(2), PyBool(TRUE)}}
    \cup {Bin(1, Identifier(Location(3, 2), "x"), op, Identifier(Location(3, 3), n)) :
              op \in {"+", "==", "!="}, n \in {"x", "a"}}

(* Declarations with and without a declared type, and blocks: empty, of   *)
(* one expression, of a declaration and a use of the declared name.        *)
Decl(c, name, initializer, datatype) ==
    [VarDecl(Location(3, c), name, initializer, UnitTypeClass) EXCEPT !.datatype = datatype]

BuiltScopes ==
    {Decl(1, name, Lit(2, value), datatype) :
         name \in {"x", "y"}, value \in {PyInt(1), PyBool(TRUE)},
         datatype \in {PyNone, IntTy, BoolTy}}
    \cup {Block(Location(3, 1), stmts, PyNone) :
              stmts \in {<<>>, <<Lit(2, PyInt(1))>>, <<Lit(2, PyBool(TRUE))>>,
                         <<Identifier(Location(3, 2), "x")>>,
                         <<Lit(2, PyInt(1)), Lit(3, PyBool(TRUE))>>,
                         <<Decl(2, "y", Lit(3, PyInt(1)), PyNone)>>,
                         <<Decl(2, "x", Lit(3, PyInt(1)), PyNone),
                           Identifier(Location(3, 4), "x")>>}}

TcNodes ==
    BuiltNodes \cup BuiltScopes \cup LastStatements \cup AndOrExprs(1, 1)
    \cup {parse_program(Declarations \o <<e>>, semi) :
              e \in IntAtoms(1) \cup BoolAtoms(1) \cup BlockExprs, semi \in BOOLEAN}

(* built_in_types alone, under a frame of variables, and under two frames  *)
(* where the inner one binds x as Bool.                                    *)
TypeFrames ==
    {[k \in {"x", "a", "b"} |-> IF k = "x" THEN IntTy ELSE BoolTy],
     [k \in {"x"} |-> BoolTy],
     [k \in {"y"} |-> IntTy]}

TcEnvs ==
    {built_in_types}
    \cup {built_in_types \o <<f>> : f \in TypeFrames}
    \cup {built_in_types \o <<f, [k \in {"x"} |-> BoolTy]>> : f \in TypeFrames}

---------------------------------------------------------------------------
(* The state machine.  A behaviour is one call of typecheck, or a call of   *)
(* generate_assembly on a given list, or one call of generate_ir followed   *)
(* either by more calls of it, or by generate_assembly and the run of the   *)
(* instructions.                                                            *)

Idle == [tag |-> "idle"]

Init ==
    /\ \/ /\ phase = "tc_ready"
          /\ node \in TcNodes
          /\ sym_tab \in TcEnvs
          /\ prog = PyNone
          /\ gen = Idle
       \/ /\ phase = "gen_ready"
          /\ prog \in Programs
          /\ node = PyNone
          /\ sym_tab = <<>>
          /\ gen = Idle
       \/ /\ phase = "asm_ready"
          /\ gen \in {Given(ins) : ins \in GivenLists}
          /\ prog = PyNone
          /\ node = PyNone
          /\ sym_tab = <<>>
    /\ tc = Idle
    /\ ip = 0
    /\ mem = EmptyDict
    /\ hits = <<>>
    /\ seen = <<>>
    /\ out = <<>>
    /\ asm = Idle
    /\ root = GLOBAL_SYMTAB
    /\ earlier = <<>>

(* typecheck(node, sym_tab): tc is what the call returned or raised, with  *)
(* the node as the call left it.                                           *)
Typecheck ==
    /\ phase = "tc_ready"
    /\ tc' = typecheck(node, sym_tab)
    /\ phase' = "tc_done"
    /\ UNCHANGED <<node, sym_tab, prog, gen, ip, mem, hits, seen, out, asm, root, earlier>>

(* generate_ir(GLOBAL_SYMTAB, prog); when it returns, the list goes to     *)
(* generate_assembly.                                                      *)
GenerateIR ==
    /\ phase = "gen_ready"
    /\ gen' = generate_ir(root, prog)
    /\ root' = gen'.root_table
    /\ phase' = IF gen'.raised THEN "gen_raised" ELSE "asm_ready"
    /\ ip' = IF gen'.raised THEN 0 ELSE 1
    /\ hits' = [i \in 1..Len(gen'.ins) |-> 0]
    /\ UNCHANGED <<node, sym_tab, tc, prog, mem, seen, out, asm, earlier>>

(* One more call generate_ir(GLOBAL_SYMTAB, tree) in the same process,     *)
(* on the same tree or on another one.                                     *)
GenerateIRAgain ==
    /\ phase \in {"gen_raised", "asm_ready", "gen_again"}
    /\ prog # PyNone
    /\ Len(earlier) + 1 < MaxCompiles
    /\ \E tree \in {prog, parse_program(Declarations, TRUE)} :
          /\ prog' = tree
          /\ gen' = generate_ir(root, tree)
    /\ root' = gen'.root_table
    /\ earlier' = Append(earlier, [prog |-> prog, gen |-> gen])
    /\ phase' = "gen_again"
    /\ UNCHANGED <<node, sym_tab, tc, ip, mem, hits, seen, out, asm>>

(* generate_assembly(gen.ins); when it returns, the machine is at the      *)
(* first instruction of a list that generate_ir returned.                  *)
GenerateAssembly ==
    /\ phase = "asm_ready"
    /\ asm' = generate_assembly(gen.ins)
    /\ phase' = IF asm'.raised THEN "asm_raised"
                ELSE IF prog = PyNone THEN "asm_done"
                ELSE "running"
    /\ UNCHANGED <<node, sym_tab, tc, prog, gen, ip, mem, hits, seen, out, root, earlier>>

(* The machine executes the instruction at ip.  seen is the trace: the     *)
(* place of each instruction executed, with the value the instruction      *)
(* tested if it is a CondJump.                                             *)
Step ==
    /\ phase = "running"
    /\ ip \in 1..Len(gen.ins)
    /\ hits[ip] < MaxHits
    /\ \E junk \in JunkRead(gen.ins[ip], mem) :
          LET insn == gen.ins[ip]
              e == Execute(insn, gen.ins, ip, mem, out, junk)
          IN /\ ~Traps(insn, mem, junk)
             /\ ip' = e.ip
             /\ mem' = e.mem
             /\ out' = e.out
             /\ seen' = Append(seen, [at |-> ip,
                                      cond |-> IF insn.tag = "CondJump"
                                               THEN Slot(mem, insn.cond, junk)
                                               ELSE 0])
    /\ hits' = [hits EXCEPT ![ip] = @ + 1]
    /\ UNCHANGED <<phase, node, sym_tab, tc, prog, gen, asm, root, earlier>>

(* A division by zero ends the run.                                        *)
Trap ==
    /\ phase = "running"
    /\ ip \in 1..Len(gen.ins)
    /\ \E junk \in JunkRead(gen.ins[ip], mem) : Traps(gen.ins[ip], mem, junk)
    /\ phase' = "trapped"
    /\ UNCHANGED <<node, sym_tab, tc, prog, gen, ip, mem, hits, seen, out, asm, root,
                   earlier>>

(* The run falls off the end of the instruction list: main returns.        *)
Halt ==
    /\ phase = "running"
    /\ ip = Len(gen.ins) + 1
    /\ phase' = "halted"
    /\ UNCHANGED <<node, sym_tab, tc, prog, gen, ip, mem, hits, seen, out, asm, root,
                   earlier>>

Next ==
    Typecheck \/ GenerateIR \/ GenerateIRAgain \/ GenerateAssembly \/ Step \/ Trap
    \/ Halt

Spec == Init /\ [][Next]_vars

(* The machine does not stop between two instructions.                     *)
FairSpec == Spec /\ WF_vars(Step) /\ WF_vars(Halt)

---------------------------------------------------------------------------
(* Properties of generate_ir.                                              *)

Generated ==
    /\ phase \in {"gen_raised", "gen_again", "asm_ready", "asm_raised", "running",
                 "trapped", "halted"}
    /\ prog # PyNone

(* var x = 3; print_int(x);                                                *)
VarPrintProgram ==
    parse_program(<<Declarations[1],
                    parse_function_call(Location(2, 1), "print_int", <<Id(2, "x")>>)>>,
                  TRUE)

(* C1: generate_ir on `var x = 3; print_int(x);` with GLOBAL_SYMTAB        *)
(* returns without raising, and returns exactly three instructions: a      *)
(* LoadIntConst of 3 into a temporary t, a Copy of t into the slot of x,   *)
(* and a Call of print_int on that slot.                                   *)
C1_VarPrintYieldsThreeInstructions ==
    (Generated /\ prog = VarPrintProgram) =>
        /\ ~gen.raised
        /\ Len(gen.ins) = 3
        /\ gen.ins[1].tag = "LoadIntConst" /\ gen.ins[1].value = 3
        /\ gen.ins[2].tag = "Copy" /\ gen.ins[2].source = gen.ins[1].dest
        /\ gen.ins[3].tag = "Call" /\ str(gen.ins[3].fun) = "print_int"
        /\ gen.ins[3].args = <<gen.ins[2].dest>>

(* The last statement is an expression the parser found a value in and no  *)
(* semicolon follows it: the parser set Program.result to a print call.    *)
EndsInBareExpression(p) ==
    /\ p.result # PyNone
    /\ p.statements[Len(p.statements)].tag \in {"Literal", "Identifier", "BinaryOp",
                                                 "IfExpr", "Block"}

(* C2: for every Program whose last top-level statement is a bare          *)
(* expression without a semicolon (a literal, an identifier, an operator   *)
(* expression, an if-else, a block with a trailing expression),            *)
(* generate_ir succeeds and the last instruction is one implicit Call of   *)
(* print_int or print_bool whose only argument holds the expression's      *)
(* value.                                                                  *)
C2_BareFinalExpressionIsPrinted ==
    (Generated /\ EndsInBareExpression(prog)) =>
        /\ ~gen.raised
        /\ Len(gen.ins) > 0
        /\ LET last == gen.ins[Len(gen.ins)]
           IN /\ last.tag = "Call"
              /\ str(last.fun) \in {"print_int", "print_bool"}
              /\ Len(last.args) = 1

---------------------------------------------------------------------------
(* The short circuit of and/or.  gen.marks[k] holds the places of the k-th *)
(* and/or visited: cj its CondJump, rfrom..rto the instructions of the     *)
(* right operand, copy the Copy of its value, const the LoadBoolConst of   *)
(* the skip path, join the Label both paths end at.                        *)

Executing == phase = "running" /\ ip \in 1..Len(gen.ins)

(* The last place in the trace where instruction i was executed (0: none). *)
LastAt(i) ==
    IF \E p \in 1..Len(seen) : seen[p].at = i
    THEN CHOOSE p \in 1..Len(seen) :
             seen[p].at = i /\ \A q \in (p + 1)..Len(seen) : seen[q].at # i
    ELSE 0

(* The places in the trace after p where an instruction of S was executed. *)
Since(p, S) == {q \in (p + 1)..Len(seen) : seen[q].at \in S}

(* and skips its right operand when the left one is false, or when true.   *)
Skips(m, left_value) == IF m.op = "and" THEN left_value = 0 ELSE left_value # 0

AtCondJump(k) == Executing /\ k <= Len(gen.marks) /\ ip = gen.marks[k].cj
AtJoin(k) == Executing /\ k <= Len(gen.marks) /\ ip = gen.marks[k].join

(* What the trace since the CondJump of m shows when control is at m.join. *)
PathToJoin(m) ==
    LET p == LastAt(m.cj)
    IN /\ p > 0
       /\ str(m.result) \in DOMAIN mem
       /\ IF Skips(m, seen[p].cond)
          THEN /\ Since(p, (m.cj + 1)..(m.copy + 1)) = {}
               /\ Cardinality(Since(p, {m.const})) = 1
               /\ mem[str(m.result)] = (IF m.op = "and" THEN 0 ELSE 1)
          ELSE /\ \A i \in m.rfrom..m.rto : Cardinality(Since(p, {i})) <= 1
               /\ m.rfrom <= m.rto => Cardinality(Since(p, {m.rfrom})) = 1
               /\ Cardinality(Since(p, {m.copy})) = 1
               /\ Since(p, {m.const}) = {}
               /\ str(m.right_var) \in DOMAIN mem
               /\ mem[str(m.result)] = mem[str(m.right_var)]

ShortCircuitPaths ==
    \A k \in 1..MaxDepth : AtJoin(k) => PathToJoin(gen.marks[k])

(* C3: in the instructions of `L and R` (`L or R`), when L is false (true) *)
(* control goes from the CondJump to the join label without executing an   *)
(* instruction of R, and the result variable then holds False (True);      *)
(* otherwise R is executed exactly once and its value is copied into the   *)
(* same result variable before the join.  Either way control reaches the   *)
(* join.                                                                   *)
C3_AndOrShortCircuit ==
    /\ []ShortCircuitPaths
    /\ \A k \in 1..MaxDepth : AtCondJump(k) ~> AtJoin(k)

(* Control is at the join of an and/or whose right operand prints, and the *)
(* right operand was skipped: nothing was printed.                         *)
C3_SkippedPrintingOperand ==
    \E k \in 1..MaxDepth :
        /\ AtJoin(k)
        /\ LET m == gen.marks[k]
           IN /\ LastAt(m.cj) > 0
              /\ Skips(m, seen[LastAt(m.cj)].cond)
              /\ \E i \in m.rfrom..m.rto :
                     gen.ins[i].tag = "Call" /\ str(gen.ins[i].fun) = "print_int"
              /\ out = <<>>

---------------------------------------------------------------------------
(* Properties of typecheck.  StaticType is the type the typing rules give  *)
(* a tree in a chain of frames, None where they give none: it is what the  *)
(* properties compare typecheck with, and no part of the type checker.     *)

Checked == phase = "tc_done"

Binders(chain, name) == {i \in 1..Len(chain) : name \in DOMAIN chain[i]}
Nearest(chain, name) ==
    LET i == CHOOSE j \in Binders(chain, name) : \A k \in Binders(chain, name) : k <= j
    IN chain[i][name]
Bound(chain, name) == IF Binders(chain, name) = {} THEN PyNone ELSE Nearest(chain, name)

RECURSIVE StaticType(_, _)
StaticTypes(xs, chain) == [i \in 1..Len(xs) |-> StaticType(xs[i], chain)]
StaticType(n, chain) ==
    CASE n.tag = "Literal" ->
           IF n.value.tag = "bool" THEN BoolTy
           ELSE IF n.value.tag = "int" THEN IntTy
           ELSE PyNone
      [] n.tag = "Identifier" -> Bound(chain, n.name)
      [] n.tag = "BinaryOp" ->
           LET t1 == StaticType(n.left, chain)
               t2 == StaticType(n.right, chain)
           IN IF t1 = PyNone \/ t2 = PyNone THEN PyNone
              ELSE IF n.op \in {"==", "!="}
              THEN (IF t1 = t2 THEN BoolTy ELSE PyNone)
              ELSE IF n.op \in DOMAIN built_in_types[1]
                      /\ built_in_types[1][n.op].param_types = <<t1, t2>>
              THEN built_in_types[1][n.op].return_type
              ELSE PyNone
      [] n.tag = "UnaryOp" ->
           LET t == StaticType(n.expr, chain)
           IN IF n.op = "-" /\ t = IntTy THEN IntTy
              ELSE IF n.op = "not" /\ t = BoolTy THEN BoolTy
              ELSE PyNone
      [] n.tag = "Call" ->
           LET f == Bound(chain, n.function)
           IN IF f # PyNone /\ f.tag = "FunType"
                 /\ f.param_types = StaticTypes(n.arguments, chain)
              THEN f.return_type
              ELSE PyNone
      [] n.tag = "IfExpr" ->
           LET c == StaticType(n.condition, chain)
               t == StaticType(n.then_expr, chain)
           IN IF c # BoolTy \/ t = PyNone THEN PyNone
              ELSE IF n.else_expr = PyNone THEN UnitTy
              ELSE IF StaticType(n.else_expr, chain) = t THEN t
              ELSE PyNone
      [] OTHER -> PyNone

(* C4: typecheck of a well-typed tree returns without raising, and the     *)
(* type field of the node it was called on is then exactly one Type.       *)
C4_WellTypedTreeChecks ==
    (Checked /\ StaticType(node, sym_tab) # PyNone) =>
        (tc.ok /\ IsType(tc.node.type))

(* C5: typecheck of a BinaryOp whose operator is a built-in and whose      *)
(* operand types are not the operator's parameter types (`1 + true`)       *)
(* raises a TypeError that reports the mismatch and cites the location of  *)
(* the node.                                                               *)
C5_OperandMismatchReported ==
    (/\ Checked
     /\ node.tag = "BinaryOp"
     /\ node.op \in DOMAIN built_in_types[1]
     /\ StaticType(node.left, sym_tab) # PyNone
     /\ StaticType(node.right, sym_tab) # PyNone
     /\ StaticType(node, sym_tab) = PyNone) =>
        /\ ~tc.ok
        /\ tc.err.exc = "TypeError"
        /\ tc.err.msg = "Operator expects"
        /\ tc.err.location = node.location

(* C6: typecheck of an IfExpr with an else whose condition is Bool and     *)
(* whose branches have the same type T returns T and sets the node's type  *)
(* to T (`if true then 1 else 2` is Int); with branches of two types it    *)
(* raises the TypeError of the branch mismatch (`if true then 1 else       *)
(* false`).                                                                *)
C6_IfElseTypeIsBranchType ==
    (/\ Checked
     /\ node.tag = "IfExpr"
     /\ node.else_expr # PyNone
     /\ StaticType(node.condition, sym_tab) = BoolTy
     /\ StaticType(node.then_expr, sym_tab) # PyNone
     /\ StaticType(node.else_expr, sym_tab) # PyNone) =>
        IF StaticType(node.then_expr, sym_tab) = StaticType(node.else_expr, sym_tab)
        THEN /\ tc.ok
             /\ tc.type = StaticType(node.then_expr, sym_tab)
             /\ tc.node.type = tc.type
        ELSE /\ ~tc.ok
             /\ tc.err.msg = "If branches must have the same type"

(* C7: typecheck of a Literal returns Int for an integer value and Bool    *)
(* for true and false.                                                     *)
C7_LiteralType ==
    (Checked /\ node.tag = "Literal" /\ node.value.tag \in {"int", "bool"}) =>
        /\ tc.ok
        /\ tc.type = (IF node.value.tag = "int" THEN IntTy ELSE BoolTy)

(* C8: typecheck of a BinaryOp with == or != raises a TypeError when the   *)
(* operand types differ; else it returns Bool and sets the node's type to  *)
(* Bool.                                                                   *)
C8_EqualityType ==
    (/\ Checked
     /\ node.tag = "BinaryOp"
     /\ node.op \in {"==", "!="}
     /\ StaticType(node.left, sym_tab) # PyNone
     /\ StaticType(node.right, sym_tab) # PyNone) =>
        IF StaticType(node.left, sym_tab) # StaticType(node.right, sym_tab)
        THEN ~tc.ok /\ tc.err.exc = "TypeError"
        ELSE tc.ok /\ tc.type = BoolTy /\ tc.node.type = BoolTy

(* C9: typecheck of a Call looks the callee up; it raises a TypeError if   *)
(* the callee's type is no function type or the argument types are not its *)
(* parameter types, else it returns the function's return type             *)
(* (`print_int(1)` is Unit, `print_int(true)` is rejected).                *)
C9_CallType ==
    (/\ Checked
     /\ node.tag = "Call"
     /\ Bound(sym_tab, node.function) # PyNone
     /\ \A i \in 1..Len(node.arguments) :
            StaticType(node.arguments[i], sym_tab) # PyNone) =>
        IF StaticType(node, sym_tab) = PyNone
        THEN ~tc.ok /\ tc.err.exc = "TypeError"
        ELSE tc.ok /\ tc.type = StaticType(node, sym_tab)

(* C10: typecheck of an Identifier returns the type the nearest frame that *)
(* binds the name gives it, and raises the TypeError of an unbound         *)
(* variable exactly when no frame binds the name.                          *)
C10_IdentifierType ==
    (Checked /\ node.tag = "Identifier") =>
        IF Binders(sym_tab, node.name) = {}
        THEN ~tc.ok /\ tc.err.msg = "Unbound variable"
        ELSE tc.ok /\ tc.type = Nearest(sym_tab, node.name)

---------------------------------------------------------------------------
(* Properties of typecheck on declarations and blocks.                     *)

CurrentFrame(chain) == chain[Len(chain)]

(* The chain with name bound to type t in its current frame.               *)
Declared(chain, name, t) == [chain EXCEPT ![Len(chain)] = DictSet(@, name, t)]

(* C11: typecheck of a VarDecl whose name the current frame binds raises   *)
(* TypeError and leaves the frame's bindings as they were; a VarDecl whose *)
(* name only an enclosing frame binds, or none, returns Unit and binds the *)
(* name to the initializer's type in the current frame only; a VarDecl     *)
(* whose declared type is not the initializer's type raises without        *)
(* binding the name.                                                       *)
C11_VarDeclBindsInCurrentFrame ==
    (/\ Checked
     /\ node.tag = "VarDecl"
     /\ StaticType(node.initializer, sym_tab) # PyNone) =>
        IF \/ node.name \in DOMAIN CurrentFrame(sym_tab)
           \/ /\ node.datatype # PyNone
              /\ node.datatype # StaticType(node.initializer, sym_tab)
        THEN /\ ~tc.ok
             /\ tc.err.exc = "TypeError"
             /\ tc.sym_tab = sym_tab
        ELSE /\ tc.ok
             /\ tc.type = UnitTy
             /\ tc.sym_tab = Declared(sym_tab, node.name,
                                      StaticType(node.initializer, sym_tab))

---------------------------------------------------------------------------
(* Properties of the instruction lists generate_ir returns.                *)

Returned == Generated /\ ~gen.raised

(* The places of the Label instructions that define a label name.          *)
Definitions(ins, name) == {i \in 1..Len(ins) : ins[i].tag = "Label" /\ ins[i].name = name}

(* The label names a Jump or a CondJump refers to.                         *)
Targets(insn) ==
    CASE insn.tag = "Jump" -> {insn.label.name}
      [] insn.tag = "CondJump" -> {insn.then_label.name, insn.else_label.name}
      [] OTHER -> {}

(* C12: in every instruction list generate_ir returns, each label a Jump   *)
(* or a CondJump refers to is defined by exactly one Label instruction of  *)
(* the list, and no label name is defined twice.                           *)
C12_LabelsDefinedOnce ==
    Returned =>
        /\ \A i \in 1..Len(gen.ins) : \A name \in Targets(gen.ins[i]) :
               Cardinality(Definitions(gen.ins, name)) = 1
        /\ \A i \in 1..Len(gen.ins) :
               gen.ins[i].tag = "Label" =>
                   Definitions(gen.ins, gen.ins[i].name) = {i}

(* A returned list with a Jump, a CondJump and the labels of at least two  *)
(* constructs.                                                             *)
C12_ListWithSeveralLabels ==
    /\ Returned
    /\ \E i, j \in 1..Len(gen.ins) : gen.ins[i].tag = "Jump" /\ gen.ins[j].tag = "CondJump"
    /\ Cardinality({i \in 1..Len(gen.ins) : gen.ins[i].tag = "Label"}) >= 6

---------------------------------------------------------------------------
(* Properties of generate_assembly.                                        *)

Assembled == asm # Idle

(* The IR variables an instruction refers to, in the order of its fields:  *)
(* the destination of a load, the source and the destination of a copy,   *)
(* the condition of a CondJump, the arguments and the destination of a     *)
(* call.                                                                   *)
Mentions(insn) ==
    CASE insn.tag \in {"LoadIntConst", "LoadBoolConst"} -> <<insn.dest>>
      [] insn.tag = "Copy" -> <<insn.source, insn.dest>>
      [] insn.tag = "CondJump" -> <<insn.cond>>
      [] insn.tag = "Call" -> insn.args \o <<insn.dest>>
      [] OTHER -> <<>>

Range(f) == {f[i] : i \in DOMAIN f}

(* The distinct IR variables of a list, in the order they first appear.    *)
RECURSIVE Distinct(_)
Distinct(vs) ==
    IF vs = <<>> THEN <<>>
    ELSE LET front == Distinct(SubSeq(vs, 1, Len(vs) - 1))
             v == vs[Len(vs)]
         IN IF v \in Range(front) THEN front ELSE Append(front, v)

RECURSIVE AllMentions(_)
AllMentions(ins) ==
    IF ins = <<>> THEN <<>>
    ELSE AllMentions(SubSeq(ins, 1, Len(ins) - 1)) \o Mentions(ins[Len(ins)])

Variables(ins) == Distinct(AllMentions(ins))

(* C13: for any instruction list, the subq line of generate_assembly       *)
(* reserves 8 bytes for each distinct IR variable of the list, and         *)
(* Locals.stack_used() returns the same number.                            *)
C13_FrameSizeIsEightPerVariable ==
    Assembled =>
        LET n == 8 * Len(Variables(gen.ins))
        IN /\ stack_used(asm.locals) = n
           /\ ~asm.raised => asm.lines[10] = "subq $" \o ToString(n) \o ", %rsp"

(* C14: generate_assembly gives a slot to every distinct IR variable the   *)
(* list refers to: the i-th one in the order of first appearance is at     *)
(* -8*i(%rbp), no two variables share a slot, and lowering looks up no     *)
(* variable without a slot.                                                *)
C14_EveryVariableHasItsSlot ==
    Assembled =>
        LET vs == Variables(gen.ins)
        IN /\ ~asm.raised
           /\ \A i \in 1..Len(vs) :
                  /\ HasRef(asm.locals, vs[i])
                  /\ get_ref(asm.locals, vs[i]) = ToString(-8 * i) \o "(%rbp)"
           /\ \A i, j \in 1..Len(vs) :
                  get_ref(asm.locals, vs[i]) = get_ref(asm.locals, vs[j]) => i = j

(* The lines of the k-th instruction of the list, after its comment line.  *)
LinesOf(k) ==
    SubSeq(asm.lines, asm.starts[k] + 1,
           IF k < Len(gen.ins) THEN asm.starts[k + 1] - 1
           ELSE Len(asm.lines) - Len(Epilogue))

(* -2^31 <= v < 2^31 for the value v = high * 2^31 + low of a LoadIntConst, *)
(* where 0 <= low < 2^31.                                                   *)
Signed32(insn) ==
    IF "high" \in DOMAIN insn THEN insn.high = 0 \/ insn.high = -1
    ELSE TRUE

(* C15: a LoadIntConst(v, d) becomes the one line movq $v, slot(d) exactly *)
(* when -2^31 <= v < 2^31, and movabsq $v, %rax followed by                *)
(* movq %rax, slot(d) for every other v.                                   *)
C15_ImmediateOrMovabs ==
    (Assembled /\ ~asm.raised) =>
        \A k \in 1..Len(gen.ins) :
            gen.ins[k].tag = "LoadIntConst" =>
                LET insn == gen.ins[k]
                    slot == get_ref(asm.locals, insn.dest)
                IN LinesOf(k) =
                       IF Signed32(insn)
                       THEN <<"movq $" \o ValueText(insn) \o ", " \o slot>>
                       ELSE <<"movabsq $" \o ValueText(insn) \o ", %rax",
                              "movq %rax, " \o slot>>

(* The list of the constants -2^31 - 1, -2^31, 2^31 - 1, 2^31 assembled:   *)
(* the two in the middle are immediates, the outer two go through %rax.    *)
C15_BoundaryConstantsAssembled ==
    /\ Assembled
    /\ ~asm.raised
    /\ Len(gen.ins) = 4
    /\ \A k \in 1..4 : gen.ins[k].tag = "LoadIntConst" /\ "high" \in DOMAIN gen.ins[k]
    /\ <<gen.ins[1].high, gen.ins[1].value>> = <<-2, 2147483647>>
    /\ <<gen.ins[2].high, gen.ins[2].value>> = <<-1, 0>>
    /\ <<gen.ins[3].high, gen.ins[3].value>> = <<0, 2147483647>>
    /\ <<gen.ins[4].high, gen.ins[4].value>> = <<1, 0>>
    /\ Len(LinesOf(1)) = 2 /\ Len(LinesOf(2)) = 1
    /\ Len(LinesOf(3)) = 1 /\ Len(LinesOf(4)) = 2
    /\ LinesOf(2) = <<"movq $-2147483648, -16(%rbp)">>

(* The integer argument registers of the calling convention, in order.     *)
ArgumentRegisters == <<"%rdi", "%rsi", "%rdx", "%rcx", "%r8", "%r9">>

Min(m, n) == IF m <= n THEN m ELSE n

(* C16: a Call of a callee outside the intrinsics table moves argument i,  *)
(* for i up to 6, into the i-th argument register, so that distinct        *)
(* arguments are in distinct registers, then calls the callee and stores   *)
(* %rax into the destination slot; further arguments are not passed.       *)
C16_ArgumentsInArgumentRegisters ==
    (Assembled /\ ~asm.raised) =>
        \A k \in 1..Len(gen.ins) :
            (gen.ins[k].tag = "Call" /\ str(gen.ins[k].fun) \notin Intrinsics) =>
                LET insn == gen.ins[k]
                IN LinesOf(k) =
                       [i \in 1..Min(Len(insn.args), 6) |->
                            "movq " \o get_ref(asm.locals, insn.args[i]) \o ", "
                            \o ArgumentRegisters[i]]
                       \o <<"callq " \o str(insn.fun),
                            "movq %rax, " \o get_ref(asm.locals, insn.dest)>>

---------------------------------------------------------------------------
(* Programs without an implicit result.                                    *)

(* The last top-level statement is closed by a separator (the parser then  *)
(* builds the Program without a result), or it is a declaration, a loop or *)
(* an if without else.                                                     *)
ClosedOrValueless(p, closed) ==
    LET last == p.statements[Len(p.statements)]
    IN \/ closed
       \/ last.tag \in {"VarDecl", "While"}
       \/ last.tag = "IfExpr" /\ last.else_expr = PyNone

(* The programs of declarations and expression statements that the typing  *)
(* rules accept: every initializer and every statement has a type under    *)
(* the declarations before it, and no name is declared twice.              *)
RECURSIVE WellTypedFrom(_, _, _)
WellTypedFrom(stmts, i, frame) ==
    IF i > Len(stmts) THEN TRUE
    ELSE LET n == stmts[i]
             chain == built_in_types \o <<frame>>
         IN IF n.tag = "VarDecl"
            THEN /\ n.name \notin DOMAIN frame
                 /\ StaticType(n.initializer, chain) \in {IntTy, BoolTy}
                 /\ WellTypedFrom(stmts, i + 1,
                                  DictSet(frame, n.name, StaticType(n.initializer, chain)))
            ELSE /\ StaticType(n, chain) # PyNone
                 /\ WellTypedFrom(stmts, i + 1, frame)

WellTyped(p) == WellTypedFrom(p.statements, 1, EmptyDict)

(* How many calls of print_int and print_bool are written in a tree.       *)
RECURSIVE WrittenPrints(_)
SumPrints(xs) ==
    LET RECURSIVE upto(_)
        upto(k) == IF k = 0 THEN 0 ELSE upto(k - 1) + WrittenPrints(xs[k])
    IN upto(Len(xs))
WrittenPrints(n) ==
    CASE n = PyNone -> 0
      [] n.tag = "BinaryOp" -> WrittenPrints(n.left) + WrittenPrints(n.right)
      [] n.tag = "UnaryOp" -> WrittenPrints(n.expr)
      [] n.tag = "IfExpr" ->
           WrittenPrints(n.condition) + WrittenPrints(n.then_expr)
           + WrittenPrints(n.else_expr)
      [] n.tag = "Call" ->
           (IF n.function \in {"print_int", "print_bool"} THEN 1 ELSE 0)
           + SumPrints(n.arguments)
      [] n.tag = "VarDecl" -> WrittenPrints(n.initializer)
      [] n.tag = "While" -> WrittenPrints(n.condition) + SumPrints(n.statements)
      [] n.tag \in {"Block", "Program"} -> SumPrints(n.statements)
      [] OTHER -> 0

EmittedPrints(ins) ==
    Cardinality({i \in 1..Len(ins) :
                     ins[i].tag = "Call" /\ str(ins[i].fun) \in {"print_int", "print_bool"}})

IsPrefix(s, t) == Len(s) <= Len(t) /\ SubSeq(t, 1, Len(s)) = s

(* The instructions of the first k top-level statements on their own.      *)
OfFirst(p, k) ==
    generate_ir(GLOBAL_SYMTAB, Program(p.location, SubSeq(p.statements, 1, k), PyNone)).ins

(* The first compilation of prog is over.                                  *)
FirstGenerated == Generated /\ earlier = <<>>

(* C17: when the last top-level statement is closed by a separator, or is  *)
(* a declaration, a while loop or an if without else, the Program has no   *)
(* implicit result, generate_ir emits every top-level statement in order,  *)
(* and the only calls of print_int and print_bool are the written ones.    *)
C17_NoImplicitResult ==
    (/\ FirstGenerated
     /\ WellTyped(prog)
     /\ \E closed \in BOOLEAN :
            /\ prog = parse_program(prog.statements, closed)
            /\ ClosedOrValueless(prog, closed)) =>
        /\ prog.result = PyNone
        /\ ~gen.raised
        /\ \A k \in 1..Len(prog.statements) :
               /\ IsPrefix(OfFirst(prog, k - 1), OfFirst(prog, k))
               /\ IsPrefix(OfFirst(prog, k), gen.ins)
        /\ OfFirst(prog, Len(prog.statements)) = gen.ins
        /\ EmittedPrints(gen.ins) = WrittenPrints(prog)

---------------------------------------------------------------------------
(* Calls of generate_ir one after another.                                 *)

(* C18: generate_ir never modifies the root table.  After any sequence of  *)
(* compilations against GLOBAL_SYMTAB, failed ones included, the table     *)
(* holds exactly its initial bindings and the counters of temporaries and  *)
(* labels start at 1 again: every call returns what it returns in a fresh  *)
(* process, and two calls on the same tree return identical lists.         *)
C18_RootTableUntouched ==
    /\ root = GLOBAL_SYMTAB
    /\ Generated =>
           /\ gen = generate_ir(GLOBAL_SYMTAB, prog)
           /\ \A i \in 1..Len(earlier) :
                  earlier[i].prog = prog =>
                      /\ earlier[i].gen.raised = gen.raised
                      /\ earlier[i].gen.ins = gen.ins

(* The same tree compiled twice, with declared variables, temporaries and  *)
(* labels in its list.                                                     *)
C18_CompiledTwice ==
    /\ phase = "gen_again"
    /\ earlier # <<>>
    /\ earlier[1].prog = prog
    /\ ~gen.raised
    /\ \E i, j \in 1..Len(gen.ins) :
           /\ gen.ins[i].tag = "Copy"
           /\ gen.ins[j].tag = "Label"

---------------------------------------------------------------------------
(* Assignment.                                                             *)

IsAssign(n) == n.tag = "BinaryOp" /\ n.op = "="

(* The assignment a program ends in: its last top-level statement, or the  *)
(* last statement of the block that is its last top-level statement.       *)
LastAssign(p) ==
    LET last == p.statements[Len(p.statements)]
    IN IF IsAssign(last) THEN last
       ELSE IF last.tag = "Block" /\ last.statements # <<>>
               /\ IsAssign(last.statements[Len(last.statements)])
       THEN last.statements[Len(last.statements)]
       ELSE PyNone

(* The names declared before that assignment, at top level or in the      *)
(* block around it.                                                        *)
DeclaredIn(stmts) == {stmts[i].name : i \in {j \in 1..Len(stmts) : stmts[j].tag = "VarDecl"}}
DeclaredBefore(p) ==
    LET last == p.statements[Len(p.statements)]
    IN DeclaredIn(p.statements)
       \cup (IF last.tag = "Block" THEN DeclaredIn(last.statements) ELSE {})

(* The slots the declarations of a list copy their initializers into.      *)
CopyDests(ins) == {ins[i].dest : i \in {j \in 1..Len(ins) : ins[j].tag = "Copy"}}

(* C19: for n1 = k and for the chain a = b = k where every assigned        *)
(* variable was declared in the current frame or in an enclosing one,      *)
(* generate_ir succeeds: it evaluates k once, copies it into the slot of   *)
(* b and then the slot of b into the slot of a; an assignment to a name    *)
(* that was never declared fails.                                          *)
C19_AssignmentRightToLeft ==
    (/\ FirstGenerated
     /\ prog = parse_program(prog.statements, TRUE)
     /\ LastAssign(prog) # PyNone
     /\ LastAssign(prog).right.tag = "Literal"
     /\ LastAssign(prog).right.value.tag = "int") =>
        LET asg == LastAssign(prog)
            n == Len(gen.ins)
        IN IF IsAssign(asg.left)
           THEN IF {asg.left.left.name, asg.left.right.name} \subseteq DeclaredBefore(prog)
                THEN /\ ~gen.raised
                     /\ n >= 3
                     /\ gen.ins[n - 2].tag = "LoadIntConst"
                     /\ gen.ins[n - 2].value = asg.right.value.n
                     /\ gen.ins[n - 1].tag = "Copy"
                     /\ gen.ins[n - 1].source = gen.ins[n - 2].dest
                     /\ gen.ins[n - 1].dest \in CopyDests(SubSeq(gen.ins, 1, n - 3))
                     /\ gen.ins[n].tag = "Copy"
                     /\ gen.ins[n].source = gen.ins[n - 1].dest
                     /\ gen.ins[n].dest \in CopyDests(SubSeq(gen.ins, 1, n - 3))
                     /\ (gen.ins[n].dest = gen.ins[n - 1].dest)
                            = (asg.left.left.name = asg.left.right.name)
                ELSE gen.raised
           ELSE IF asg.left.name \in DeclaredBefore(prog)
                THEN /\ ~gen.raised
                     /\ n >= 2
                     /\ gen.ins[n - 1].tag = "LoadIntConst"
                     /\ gen.ins[n - 1].value = asg.right.value.n
                     /\ gen.ins[n].tag = "Copy"
                     /\ gen.ins[n].source = gen.ins[n - 1].dest
                     /\ gen.ins[n].dest \in CopyDests(SubSeq(gen.ins, 1, n - 2))
                ELSE gen.raised

---------------------------------------------------------------------------
(* The type of a Block.                                                    *)

(* The type of the last of the statements i.. checked one after the other  *)
(* in the chain, where a declaration binds its name in the current frame   *)
(* and has type Unit; PyNone if a statement has no type; last for none.    *)
RECURSIVE TypeOfLast(_, _, _, _)
TypeOfLast(stmts, i, chain, last) ==
    IF i > Len(stmts) THEN last
    ELSE LET n == stmts[i]
         IN IF n.tag = "VarDecl"
            THEN LET t == StaticType(n.initializer, chain)
                 IN IF t = PyNone \/ n.name \in DOMAIN CurrentFrame(chain)
                       \/ (n.datatype # PyNone /\ n.datatype # t)
                    THEN PyNone
                    ELSE TypeOfLast(stmts, i + 1, Declared(chain, n.name, t), UnitTy)
            ELSE LET t == StaticType(n, chain)
                 IN IF t = PyNone THEN PyNone
                    ELSE TypeOfLast(stmts, i + 1, chain, t)

BlockType(block, chain) == TypeOfLast(block.statements, 1, Append(chain, EmptyDict), UnitTy)

(* C20: typecheck of a Block checks its statements in a fresh child frame. *)
(* When it returns or raises, the bindings of the enclosing frames are     *)
(* what they were, so a name declared inside is unbound afterwards; the    *)
(* type of the Block is the type of its last statement, Unit if it has     *)
(* none.                                                                   *)
C20_BlockTypeAndScope ==
    (Checked /\ node.tag = "Block") =>
        /\ tc.sym_tab = sym_tab
        /\ BlockType(node, sym_tab) # PyNone =>
               /\ tc.ok
               /\ tc.type = BlockType(node, sym_tab)

---------------------------------------------------------------------------
(* Definition before use.                                                  *)

(* The variable an instruction writes, as a set.                           *)
Writes(insn) ==
    IF insn.tag \in {"LoadIntConst", "LoadBoolConst", "Copy", "Call"} THEN {insn.dest}
    ELSE {}

(* C21: in every instruction list generate_ir returns, each IR variable an *)
(* instruction reads (the source of a Copy, an argument of a Call, the     *)
(* condition of a CondJump) is the destination of an instruction earlier   *)
(* in the list; the variable unit that an if without else, a while, a      *)
(* declaration and an empty block yield is no exception.                   *)
C21_DefinedBeforeUse ==
    Returned =>
        \A i \in 1..Len(gen.ins) : \A v \in Reads(gen.ins[i]) :
            \E j \in 1..(i - 1) : v \in Writes(gen.ins[j])

---------------------------------------------------------------------------
(* Loops.                                                                  *)

(* The program ends in a while loop and was compiled; the loop's           *)
(* instructions are those after the ones of the statements before it.      *)
EndsInWhile ==
    /\ Returned
    /\ prog.statements[Len(prog.statements)].tag = "While"

LoopStart == Len(OfFirst(prog, Len(prog.statements) - 1)) + 1

(* The CondJump of the loop: the first one at or after LoopStart.          *)
LoopTest ==
    CHOOSE p \in LoopStart..Len(gen.ins) :
        /\ gen.ins[p].tag = "CondJump"
        /\ \A q \in LoopStart..(p - 1) : gen.ins[q].tag # "CondJump"

Plain(insn) == insn.tag \in {"LoadIntConst", "LoadBoolConst", "Copy", "Call"}

(* Label(cond), the condition, CondJump(c, body, end), Label(body), the    *)
(* body, Jump(cond), Label(end).                                           *)
LoopShape ==
    LET n == Len(gen.ins)
        p == LoopTest
    IN /\ \E q \in LoopStart..n : gen.ins[q].tag = "CondJump"
       /\ gen.ins[LoopStart].tag = "Label"
       /\ LoopStart + 1 < p /\ p + 2 < n
       /\ \A q \in (LoopStart + 1)..(p - 1) : Plain(gen.ins[q])
       /\ gen.ins[p].cond \in Writes(gen.ins[p - 1])
       /\ gen.ins[p + 1].tag = "Label"
       /\ gen.ins[p].then_label = gen.ins[p + 1]
       /\ \A q \in (p + 2)..(n - 2) : Plain(gen.ins[q])
       /\ gen.ins[n - 1].tag = "Jump"
       /\ gen.ins[n - 1].label = gen.ins[LoopStart]
       /\ gen.ins[n].tag = "Label"
       /\ gen.ins[p].else_label = gen.ins[n]
       /\ Cardinality({gen.ins[LoopStart].name, gen.ins[p + 1].name, gen.ins[n].name}) = 3

(* The run tests the condition before it enters the body, and is at the    *)
(* end label right after the first test that found it false: seen holds    *)
(* no instruction of the body without a test before it that was true, and  *)
(* nothing but the end label after a test that was false.                  *)
LoopRun ==
    phase \in {"running", "halted"} =>
        \A k \in 1..Len(seen) :
            /\ seen[k].at > LoopTest =>
                   k > 1 /\ seen[k - 1].at >= LoopTest
            /\ (seen[k].at = LoopTest + 1) =>
                   (seen[k - 1].at = LoopTest /\ seen[k - 1].cond # 0)
            /\ (seen[k].at = LoopTest /\ seen[k].cond = 0 /\ k < Len(seen)) =>
                   (seen[k + 1].at = Len(gen.ins) /\ k + 1 = Len(seen))

(* How often the run has entered the body of the loop.                     *)
Iterations == Cardinality({k \in 1..Len(seen) : seen[k].at = LoopTest + 1})

CountingLoopDone ==
    /\ prog = CountingLoop
    /\ phase = "halted"
    /\ Iterations = 3
    /\ mem[str(gen.ins[2].dest)] = 3

(* C22: for a While generate_ir emits Label(cond), the condition's         *)
(* instructions, CondJump(c, body, end), Label(body), the body's           *)
(* instructions, Jump(cond), Label(end); the run tests the condition       *)
(* before every iteration and is at the end label the first time it is     *)
(* false; the run of `var x = 0; while x < 3 do { x = x + 1 }` executes    *)
(* the body exactly three times and then ends with x = 3.                  *)
C22_WhileLoop ==
    /\ [](EndsInWhile => (LoopShape /\ LoopRun))
    /\ [](prog = CountingLoop /\ Generated => ~gen.raised /\ Iterations <= 3)
    /\ (prog = CountingLoop /\ phase = "running") ~> CountingLoopDone

(* The run of the counting loop is over, after three iterations.           *)
C22_CountingLoopRan ==
    /\ CountingLoopDone
    /\ LoopShape
    /\ Len(seen) > 3 * (Len(gen.ins) - LoopStart)

---------------------------------------------------------------------------
(* Conditionals.                                                           *)

(* The program ends in an if and was compiled.                             *)
EndsInIf ==
    /\ Returned
    /\ prog.statements[Len(prog.statements)].tag = "IfExpr"

(* What visit does on the last statement, after the statements before it.  *)
VisitLast ==
    LET before == visit([st |-> <<GLOBAL_SYMTAB, EmptyDict>>, counter |-> 1,
                         label_counter |-> 1, ins |-> <<>>, marks |-> <<>>],
                        Program(prog.location,
                                SubSeq(prog.statements, 1, Len(prog.statements) - 1),
                                PyNone),
                        FALSE)
    IN visit(before.s, prog.statements[Len(prog.statements)], FALSE)

(* The instructions lo..hi are loads and calls that do not write r.        *)
Straight(ins, lo, hi, r) ==
    \A q \in lo..hi : ins[q].tag \in {"LoadIntConst", "LoadBoolConst", "Call"}
                       /\ r \notin Writes(ins[q])

(* CondJump(c, then, else), Label(then), the then-branch, Copy into r,     *)
(* Jump(end), Label(else), the else-branch, Copy into r, Label(end).       *)
IfElseShape(ins, from, r) ==
    \E p, j \in from..Len(ins) :
        LET n == Len(ins)
        IN /\ p < j /\ j + 2 < n
           /\ \A q \in from..(p - 1) : Plain(ins[q])
           /\ ins[p].tag = "CondJump"
           /\ ins[p + 1].tag = "Label" /\ ins[p].then_label = ins[p + 1]
           /\ Straight(ins, p + 2, j - 2, r)
           /\ ins[j - 1].tag = "Copy" /\ ins[j - 1].dest = r /\ j - 1 > p + 1
           /\ ins[j].tag = "Jump" /\ ins[j].label = ins[n]
           /\ ins[j + 1].tag = "Label" /\ ins[p].else_label = ins[j + 1]
           /\ Straight(ins, j + 2, n - 2, r)
           /\ ins[n - 1].tag = "Copy" /\ ins[n - 1].dest = r
           /\ ins[n].tag = "Label"
           /\ Cardinality({ins[p + 1].name, ins[j + 1].name, ins[n].name}) = 3
           /\ r # var_unit

(* CondJump(c, then, end), Label(then), the then-branch, Jump(end),        *)
(* Label(end), and no Copy.                                                *)
IfShape(ins, from) ==
    \E p \in from..Len(ins) :
        LET n == Len(ins)
        IN /\ p + 2 < n
           /\ \A q \in from..(p - 1) : Plain(ins[q])
           /\ ins[p].tag = "CondJump"
           /\ ins[p + 1].tag = "Label" /\ ins[p].then_label = ins[p + 1]
           /\ \A q \in (p + 2)..(n - 2) :
                  ins[q].tag \in {"LoadIntConst", "LoadBoolConst", "Call"}
           /\ ins[n - 1].tag = "Jump" /\ ins[n - 1].label = ins[n]
           /\ ins[n].tag = "Label" /\ ins[p].else_label = ins[n]
           /\ ins[p + 1].name # ins[n].name

(* C23: for an if with else, generate_ir emits CondJump(c, then, else),    *)
(* and on each path exactly one Copy of the branch's value into the one    *)
(* result variable before the end label, which the then-path reaches by a  *)
(* Jump over the else-branch; for an if without else no result variable is *)
(* written, the other target of the CondJump is the end label, and the     *)
(* value is the variable unit.                                             *)
C23_IfShape ==
    EndsInIf =>
        LET r == VisitLast
            last == prog.statements[Len(prog.statements)]
        IN /\ r.ok
           /\ IsPrefix(r.s.ins, gen.ins)
           /\ Len(gen.ins) <= Len(r.s.ins) + 1
           /\ IF last.else_expr # PyNone
              THEN IfElseShape(r.s.ins, LoopStart, r.val)
              ELSE IfShape(r.s.ins, LoopStart) /\ r.val = var_unit

(* A compiled if with else whose condition is a comparison and whose       *)
(* branches are literals, followed by the print of its value.              *)
C23_IfElseCompiled ==
    /\ EndsInIf
    /\ LET last == prog.statements[Len(prog.statements)]
       IN /\ last.else_expr # PyNone
          /\ last.condition.tag = "BinaryOp"
          /\ last.then_expr.tag = "Literal"
          /\ last.else_expr.tag = "Literal"
    /\ IfElseShape(VisitLast.s.ins, LoopStart, VisitLast.val)
    /\ Len(gen.ins) = Len(VisitLast.s.ins) + 1

---------------------------------------------------------------------------
(* One name declared with two types in one frame.                          *)

(* The program declares one name as Int and as Bool at top level, in       *)
(* either order, and then uses it once; the first compilation is over.     *)
DeclaredTwice ==
    /\ FirstGenerated
    /\ Len(prog.statements) = 3
    /\ prog.statements[1].tag = "VarDecl"
    /\ prog.statements[2].tag = "VarDecl"
    /\ prog.statements[1].name = prog.statements[2].name
    /\ {prog.statements[1].type, prog.statements[2].type} = {IntTy, BoolTy}

(* The slot of the k-th of the two declarations: the destination of the    *)
(* Copy of its initializer.                                                *)
SlotOfDeclaration(k) == gen.ins[2 * k].dest

(* The slot the use resolved to: the argument of the call, or the          *)
(* destination of the assignment's Copy.                                   *)
SlotUsed ==
    LET last == gen.ins[Len(gen.ins)]
    IN IF last.tag = "Call" THEN last.args[1] ELSE last.dest

BothDeclared ==
    /\ ~gen.raised
    /\ Len(gen.ins) >= 5
    /\ gen.ins[2].tag = "Copy" /\ gen.ins[4].tag = "Copy"
    /\ SlotOfDeclaration(1) # SlotOfDeclaration(2)

(* C24 as stated: when one name is declared as Int and as Bool in one      *)
(* frame, both declarations succeed and every later reference or           *)
(* assignment resolves to the slot of the declaration that came first.     *)
C24_ResolvesToFirstDeclaration ==
    DeclaredTwice => (BothDeclared /\ SlotUsed = SlotOfDeclaration(1))

(* C24 as the code has it: both declarations succeed and every later       *)
(* reference or assignment resolves to the slot of the Int declaration,    *)
(* whichever of the two came first.                                        *)
C24_ResolvesToIntDeclaration ==
    DeclaredTwice =>
        /\ BothDeclared
        /\ SlotUsed = SlotOfDeclaration(IF prog.statements[1].type = IntTy THEN 1 ELSE 2)

(* Bool declared first, Int second, and a call on the name compiled: the   *)
(* argument is the slot of the second declaration.                         *)
C24_BoolThenIntCompiled ==
    /\ DeclaredTwice
    /\ prog.statements[1].type = BoolTy
    /\ BothDeclared
    /\ gen.ins[5].tag = "Call"
    /\ SlotUsed = SlotOfDeclaration(2)

---------------------------------------------------------------------------
(* Temporaries and source names.                                           *)

(* The names new_var gives to IR variables.                                *)
TemporaryNames == {"x" \o ToString(i) : i \in 1..9}

(* The statements before the last one are declarations of distinct names   *)
(* with literal initializers, none of them named like a temporary.         *)
PlainDeclarationsFirst ==
    LET n == Len(prog.statements)
    IN /\ \A i \in 1..(n - 1) :
              /\ prog.statements[i].tag = "VarDecl"
              /\ prog.statements[i].initializer.tag = "Literal"
              /\ prog.statements[i].name \notin TemporaryNames
       /\ \A i, j \in 1..(n - 1) :
              prog.statements[i].name = prog.statements[j].name => i = j

(* C25: temporaries are distinct from source names.  A source variable     *)
(* named like a temporary (x1, x2, ...) that was not declared before can   *)
(* be declared without an 'already declared' error, and a reference to an  *)
(* undeclared name of that form fails with 'Unknown identifier' instead of *)
(* resolving to a temporary.                                               *)
C25_TemporariesApartFromNames ==
    (FirstGenerated /\ PlainDeclarationsFirst) =>
        LET last == prog.statements[Len(prog.statements)]
        IN /\ (/\ last.tag = "VarDecl"
               /\ last.name \in TemporaryNames
               /\ last.initializer.tag = "Literal") => ~gen.raised
           /\ (/\ last.tag = "Call"
               /\ last.function = "f"
               /\ Len(last.arguments) = 1
               /\ last.arguments[1].tag = "Identifier"
               /\ last.arguments[1].name \in TemporaryNames) =>
                  (gen.raised /\ gen.err.kind = "Unknown identifier")

---------------------------------------------------------------------------
(* Nested scopes.                                                          *)

(* The program declares a name, declares it again in a block and uses it   *)
(* there, and uses it after the block; the first compilation is over.      *)
DeclaredInBlockToo ==
    /\ FirstGenerated
    /\ Len(prog.statements) = 3
    /\ prog.statements[1].tag = "VarDecl"
    /\ prog.statements[2].tag = "Block"
    /\ Len(prog.statements[2].statements) = 2
    /\ prog.statements[2].statements[1].tag = "VarDecl"
    /\ prog.statements[2].statements[1].name = prog.statements[1].name
    /\ prog.statements[3].tag = "Call"

(* The slot an instruction uses: the argument of a call, the destination   *)
(* of an assignment's Copy.                                                *)
SlotIn(insn) == IF insn.tag = "Call" THEN insn.args[1] ELSE insn.dest

(* C26: a reference to a name, and the target of an assignment, resolve    *)
(* to the slot of the innermost enclosing declaration of the name.  When   *)
(* a block declares a name that an outer frame declares too, with the      *)
(* same primitive type or the other one, the uses in the block after the   *)
(* declaration are of the inner slot and the uses after the block are of   *)
(* the outer slot.                                                         *)
C26_InnermostDeclaration ==
    DeclaredInBlockToo =>
        LET n == Len(gen.ins)
        IN /\ ~gen.raised
           /\ n >= 6
           /\ gen.ins[2].tag = "Copy" /\ gen.ins[4].tag = "Copy"
           /\ gen.ins[2].dest # gen.ins[4].dest
           /\ SlotIn(gen.ins[n - 1]) = gen.ins[4].dest
           /\ SlotIn(gen.ins[n]) = gen.ins[2].dest

=============================================================================
